---------------------------- MODULE Spec2Model ----------------------------
(***************************************************************************)
(* Relativity Interactive Lab: the Lorentz Transformer and the Spacetime   *)
(* Explorer (src/lorentz.js) and the field-line tracers and field          *)
(* evaluators of the Field Visualizer (src/fields.js, src/unnamed/         *)
(* part_000, src/unnamed/part_002).                                        *)
(*                                                                         *)
(* JavaScript numbers are modelled exactly where the value is rational:    *)
(* a rational is a pair <<n, d>> in lowest terms with d > 0.  A number of  *)
(* the Lorentz Transformer, which mixes metres and seconds through the     *)
(* speed of light c, is a record [q, m, p] of rationals standing for       *)
(* q/c + m + p*c.  A Lorentz factor with an irrational root is kept to     *)
(* steps of 1/GammaSteps.  The tracers work in fixed point.                *)
(***************************************************************************)
EXTENDS Integers, Sequences, FiniteSets, TLC

VARIABLES
    page,            \* which script of the lab is loaded
    beta,            \* lorentz.js: v/c
    gamma,           \* lorentz.js: the stored Lorentz factor
    events,          \* lorentz.js: the event list of the loaded page
    history,         \* Lorentz Transformer: the last calculations, newest first
    currentPreset,   \* Lorentz Transformer: the selected preset
    inputX,          \* Lorentz Transformer: number held by the inputX field
    inputT,          \* Lorentz Transformer: number held by the inputT field
    outputX,         \* Lorentz Transformer: number shown (toFixed(6)) in outputX
    outputT,         \* Lorentz Transformer: number shown (toFixed(6)) in outputT
    isAnimating,     \* Lorentz Transformer: set by Swap Frames
    draggedEvent,    \* Spacetime Explorer: index of the dragged event, 0 for null
    calcs,           \* Lorentz Transformer: handlers run so far (bounded by MaxCalcs)
    swaps,           \* Lorentz Transformer: Swap Frames clicks so far (bounded by MaxSwaps)
    lastHandler,     \* Lorentz Transformer: the handler that ran last
    line,            \* field visualizers: the field line being traced
    sample,          \* field visualizers: the last field evaluation
    viz,             \* field visualizers: the controls, the info panel, the last frame
    quiz             \* quiz (src/unnamed/part_001): the quiz state and what the page shows

-----------------------------------------------------------------------------
(* Bounds of the model *)

\* handlers run in one behaviour of the Lorentz Transformer
MaxCalcs == 3

\* Swap Frames clicks in one behaviour: every click multiplies the denominators
\* of the exact values the fields hold
MaxSwaps == 1

\* an irrational Lorentz factor is kept to steps of 1 / GammaSteps
GammaSteps == 10

\* questions of a quiz: each quiz is cut to its first QuizLength questions
QuizLength == 2

\* quizzes started in one behaviour
MaxQuizzes == 2

\* seconds a quiz may last: let timeRemaining = 1500, scaled down
TimeLimit == 3

-----------------------------------------------------------------------------
(* Rational arithmetic: the values of JavaScript numbers *)

Abs(n) == IF n < 0 THEN -n ELSE n

Sgn(n) == IF n < 0 THEN -1 ELSE IF n > 0 THEN 1 ELSE 0

RECURSIVE Gcd(_, _)
Gcd(a, b) == IF b = 0 THEN a ELSE Gcd(b, a % b)

\* floor of the square root of n >= 0, by bisection on lo..hi
RECURSIVE SqrtBetween(_, _, _)
SqrtBetween(n, lo, hi) ==
    IF lo >= hi THEN lo
    ELSE LET mid == (lo + hi + 1) \div 2
         IN  IF mid <= n \div mid THEN SqrtBetween(n, mid, hi)
             ELSE SqrtBetween(n, lo, mid - 1)

ISqrt(n) == IF n <= 0 THEN 0 ELSE SqrtBetween(n, 1, IF n < 46340 THEN n ELSE 46340)

\* the rational n/d in lowest terms, d # 0
Rat(n, d) ==
    LET g == Gcd(Abs(n), Abs(d))
        s == IF d < 0 THEN -1 ELSE 1
    IN  <<(s * n) \div g, (s * d) \div g>>

Zero == <<0, 1>>

One == <<1, 1>>

RNeg(a) == <<-a[1], a[2]>>

RAdd(a, b) ==
    LET g == Gcd(a[2], b[2])
    IN  Rat(a[1] * (b[2] \div g) + b[1] * (a[2] \div g), a[2] * (b[2] \div g))

RSub(a, b) == RAdd(a, RNeg(b))

RMul(a, b) ==
    LET g1 == Gcd(Abs(a[1]), b[2])
        g2 == Gcd(Abs(b[1]), a[2])
    IN  IF a[1] = 0 \/ b[1] = 0 THEN Zero
        ELSE <<(a[1] \div g1) * (b[1] \div g2), (a[2] \div g2) * (b[2] \div g1)>>

RSign(a) == Sgn(a[1])

RAbs(a) == <<Abs(a[1]), a[2]>>

\* a/b < c/d for a, c >= 0 and b, d > 0, without forming a product
RECURSIVE LessPos(_, _, _, _)
LessPos(a, b, c, d) ==
    LET i == a \div b
        j == c \div d
        ra == a % b
        rc == c % d
    IN  IF i # j THEN i < j
        ELSE IF rc = 0 THEN FALSE
        ELSE IF ra = 0 THEN TRUE
        ELSE LessPos(d, rc, b, ra)

RLess(a, b) ==
    IF RSign(a) # RSign(b) THEN RSign(a) < RSign(b)
    ELSE IF RSign(a) >= 0 THEN LessPos(a[1], a[2], b[1], b[2])
    ELSE LessPos(-b[1], b[2], -a[1], a[2])

RLeq(a, b) == ~RLess(b, a)

-----------------------------------------------------------------------------
(* Numbers of the Lorentz Transformer: q/c + m + p*c, Infinity, NaN *)

\* Speed of light in m/s
c == 299792458

Num(q, m, p) == [k |-> "num", q |-> q, m |-> m, p |-> p]

Plain(r) == Num(Zero, r, Zero)

Infinity(s) == [k |-> "inf", s |-> s]

NaN == [k |-> "nan"]

IsFinite(v) == v.k = "num"

\* sign of a number: c is far larger than every coefficient the model holds, so
\* the c term decides before the plain term and the plain term before the 1/c term
NSign(v) ==
    IF v.k = "inf" THEN v.s
    ELSE IF RSign(v.p) # 0 THEN RSign(v.p)
    ELSE IF RSign(v.m) # 0 THEN RSign(v.m)
    ELSE RSign(v.q)

\* IEEE 754 sum
NAdd(u, v) ==
    IF u.k = "nan" \/ v.k = "nan" THEN NaN
    ELSE IF u.k = "inf" /\ v.k = "inf" THEN (IF u.s = v.s THEN u ELSE NaN)
    ELSE IF u.k = "inf" THEN u
    ELSE IF v.k = "inf" THEN v
    ELSE Num(RAdd(u.q, v.q), RAdd(u.m, v.m), RAdd(u.p, v.p))

\* IEEE 754 product of the rational r and the number v
NScale(r, v) ==
    IF v.k = "nan" THEN NaN
    ELSE IF v.k = "inf" THEN (IF RSign(r) = 0 THEN NaN ELSE Infinity(RSign(r) * v.s))
    ELSE Num(RMul(r, v.q), RMul(r, v.m), RMul(r, v.p))

NSub(u, v) == NAdd(u, NScale(<<-1, 1>>, v))

\* v * c; a finite v has no c term
TimesC(v) ==
    IF v.k # "num" THEN v
    ELSE IF v.p = Zero THEN Num(Zero, v.q, v.m)
    ELSE CHOOSE unrepresentable \in {} : TRUE

\* v / c; a finite v has no 1/c term
DivC(v) ==
    IF v.k # "num" THEN v
    ELSE IF v.q = Zero THEN Num(v.m, v.p, Zero)
    ELSE CHOOSE unrepresentable \in {} : TRUE

\* IEEE 754 product of the Lorentz factor g (a plain number, Infinity or NaN) and v
NMul(g, v) ==
    IF g.k = "nan" \/ v.k = "nan" THEN NaN
    ELSE IF g.k = "inf"
         THEN (IF NSign(v) = 0 THEN NaN ELSE Infinity(g.s * NSign(v)))
    ELSE NScale(g.m, v)

\* parseFloat(text) || 0 : NaN and 0 give 0
OrZero(v) == IF v.k = "nan" THEN Plain(Zero) ELSE v

\* 1 / Math.sqrt(1 - b * b) for the rational b: exact where the root is
\* rational, else the largest multiple of 1 / GammaSteps below it
Gamma(b) ==
    LET d2 == b[2] * b[2] - b[1] * b[1]
        s  == ISqrt(d2)
    IN  IF d2 = 0 THEN Infinity(1)
        ELSE IF d2 < 0 THEN NaN
        ELSE IF s * s = d2 THEN Plain(Rat(b[2], s))
        ELSE Plain(Rat(ISqrt((GammaSteps * GammaSteps * b[2] * b[2]) \div d2),
                       GammaSteps))

\* frac(100 * r) for the rational r: the part of 100 * r after the decimal point
Frac100(r) == Rat((100 * (r[1] % r[2])) % r[2], r[2])

\* frac(100 * r * c) for the rational r
FracC100(r) ==
    Rat(((r[1] % r[2]) * ((100 * (c % r[2])) % r[2])) % r[2], r[2])

\* whether 100 * (qn/qd) / c >= t for a rational t and qn/qd # 0
PerturbReaches(qr, t) ==
    IF RSign(qr) > 0
    THEN (RSign(t) <= 0
          \/ ~LessPos(qr[1] * t[2], qr[2] * t[1], c, 100))
    ELSE (RSign(t) < 0
          /\ ~LessPos(c, 100, (-qr[1]) * t[2], qr[2] * (-t[1])))

\* parseFloat(v.toFixed(6)).toFixed(2) read back as a number: v rounded to six
\* decimals and that text rounded to two, halves away from zero.  For a >= 0
\* the result is floor(100 * a + 0.50005) / 100.
Fixed6Then2(v) ==
    IF v.k # "num" THEN v
    ELSE IF NSign(v) = 0 THEN Plain(Zero)
    ELSE LET s  == <<NSign(v), 1>>
             M  == RMul(s, v.m)
             P  == RMul(s, v.p)
             Q  == RMul(s, v.q)
             f1 == RAdd(Frac100(M), FracC100(P))
             f0 == IF RLess(f1, One) THEN f1 ELSE RSub(f1, One)
             th == RSub(<<9999, 20000>>, f0)
             up == IF Q = Zero THEN RSign(th) <= 0
                   ELSE IF RLess(Q, <<2000, 1>>) /\ RLeq(<<1, 1000>>, RAbs(th))
                   THEN RSign(th) < 0
                   ELSE PerturbReaches(Q, th)
             g  == IF up THEN RSub(f0, One) ELSE f0
         IN  Num(Zero, RMul(s, RSub(M, RMul(<<1, 100>>, g))), v.p)

-----------------------------------------------------------------------------
(* Lorentz Transformer (src/lorentz.js, lines 1-420) *)

vars == <<page, beta, gamma, events, history, currentPreset, inputX, inputT,
          outputX, outputT, isAnimating, draggedEvent, calcs, swaps, lastHandler,
          line, sample, viz, quiz>>

\* the state of the field visualizers, and its value while a page of
\* src/lorentz.js is loaded
fieldVars == <<line, sample, viz, quiz>>

NoField == [fn |-> "none"]

\* values the velocity slider's input event carries
SliderValues == {<<0, 1>>, <<3, 5>>, <<99, 100>>, <<1, 1>>}

\* values typed into the direct beta input
BetaInputs == {<<-3, 5>>, <<1, 2>>, <<3, 2>>, <<-1, 1>>}

\* values typed into the inputX and inputT fields
TypedX == {<<10, 1>>, <<-5, 2>>}

TypedT == {<<0, 1>>, <<1, 1>>}

Presets == {"timeDilation", "lengthContraction", "twinParadox",
            "relativitySimultaneity", "custom"}

\* x' = gamma * (x - beta * c * t)
XPrime(g, b, x, t) == NMul(g, NSub(x, TimesC(NScale(b, t))))

\* t' = gamma * (t - (beta / c) * x)
TPrime(g, b, x, t) == NMul(g, NSub(t, NScale(b, DivC(x))))

\* a history that is never cut
addToHistoryKeepsAll(h, b, x, t, xPrime, tPrime) ==
    <<[beta |-> b, input |-> [x |-> x, t |-> t],
       output |-> [x |-> xPrime, t |-> tPrime]]>> \o h

\* history.unshift(entry); if (history.length > 5) history.pop()
addToHistory(h, b, x, t, xPrime, tPrime) ==
    LET entry == [beta |-> b, input |-> [x |-> x, t |-> t],
                  output |-> [x |-> xPrime, t |-> tPrime]]
        h1 == <<entry>> \o h
    IN  IF Len(h1) > 5 THEN SubSeq(h1, 1, Len(h1) - 1) ELSE h1

\* calculateTransformation() with the fields holding ix, it and the globals g, b
calculateTransformation(g, b, ix, it) ==
    LET x == OrZero(ix)
        t == OrZero(it)
        xPrime == XPrime(g, b, x, t)
        tPrime == TPrime(g, b, x, t)
    IN  /\ outputX' = xPrime
        /\ outputT' = tPrime
        /\ history' = addToHistory(history, b, x, t, xPrime, tPrime)

Ran(h) == /\ calcs < MaxCalcs
          /\ calcs' = calcs + 1
          /\ lastHandler' = h

InitTransformer ==
    /\ quiz = NoField
    /\ page = "transformer"
    /\ beta = <<4, 5>>
    /\ gamma = Gamma(<<4, 5>>)
    /\ events = <<[x |-> <<5, 1>>, t |-> <<2, 1>>, label |-> "Event A"]>>
    /\ currentPreset = "custom"
    /\ inputX = Plain(<<5, 1>>)
    /\ inputT = Plain(<<2, 1>>)
    /\ outputX = XPrime(Gamma(<<4, 5>>), <<4, 5>>, Plain(<<5, 1>>), Plain(<<2, 1>>))
    /\ outputT = TPrime(Gamma(<<4, 5>>), <<4, 5>>, Plain(<<5, 1>>), Plain(<<2, 1>>))
    /\ LET again(h) ==
               addToHistory(h, <<4, 5>>, Plain(<<5, 1>>), Plain(<<2, 1>>),
                   XPrime(Gamma(<<4, 5>>), <<4, 5>>, Plain(<<5, 1>>), Plain(<<2, 1>>)),
                   TPrime(Gamma(<<4, 5>>), <<4, 5>>, Plain(<<5, 1>>), Plain(<<2, 1>>)))
       IN  \* the history after setup(), or after four more clicks on
           \* calculateBtn with the fields as setup() left them
           history \in {again(<<>>), again(again(again(again(again(<<>>)))))}
    /\ isAnimating = FALSE
    /\ draggedEvent = 0
    /\ calcs = 0
    /\ swaps = 0
    /\ lastHandler = "setup"
    /\ line = NoField
    /\ sample = NoField
    /\ viz = NoField

\* click on calculateBtn
CalculateBtn ==
    /\ page = "transformer"
    /\ Ran("calculate")
    /\ calculateTransformation(gamma, beta, inputX, inputT)
    /\ UNCHANGED <<page, beta, gamma, events, currentPreset, inputX, inputT,
                   isAnimating, draggedEvent, fieldVars, swaps>>

\* a slider handler that stores beta and leaves gamma as it was
VelocitySliderKeepsGamma(v) ==
    /\ page = "transformer"
    /\ Ran("velocitySlider")
    /\ beta' = v
    /\ IF currentPreset = "custom"
       THEN calculateTransformation(gamma, v, inputX, inputT)
       ELSE UNCHANGED <<outputX, outputT, history>>
    /\ UNCHANGED <<page, gamma, events, currentPreset, inputX, inputT, isAnimating,
                   draggedEvent, fieldVars, swaps>>

\* input event of velocitySlider
VelocitySlider(v) ==
    /\ page = "transformer"
    /\ Ran("velocitySlider")
    /\ beta' = v
    /\ gamma' = Gamma(v)
    /\ IF currentPreset = "custom"
       THEN calculateTransformation(Gamma(v), v, inputX, inputT)
       ELSE UNCHANGED <<outputX, outputT, history>>
    /\ UNCHANGED <<page, events, currentPreset, inputX, inputT, isAnimating,
                   draggedEvent, fieldVars, swaps>>

\* beta as the betaInput handler stores it
ClampBeta(v) ==
    IF RLeq(One, RAbs(v)) THEN RMul(<<99, 100>>, <<RSign(v), 1>>) ELSE v

\* input event of betaInput
BetaInput(v) ==
    /\ page = "transformer"
    /\ Ran("betaInput")
    /\ beta' = ClampBeta(v)
    /\ gamma' = Gamma(ClampBeta(v))
    /\ IF currentPreset = "custom"
       THEN calculateTransformation(Gamma(ClampBeta(v)), ClampBeta(v), inputX, inputT)
       ELSE UNCHANGED <<outputX, outputT, history>>
    /\ UNCHANGED <<page, events, currentPreset, inputX, inputT, isAnimating,
                   draggedEvent, fieldVars, swaps>>

\* input event of inputX
InputX(v) ==
    /\ page = "transformer"
    /\ Ran("inputX")
    /\ inputX' = Plain(v)
    /\ IF currentPreset = "custom"
       THEN calculateTransformation(gamma, beta, Plain(v), inputT)
       ELSE UNCHANGED <<outputX, outputT, history>>
    /\ UNCHANGED <<page, beta, gamma, events, currentPreset, inputT, isAnimating,
                   draggedEvent, fieldVars, swaps>>

\* input event of inputT
InputT(v) ==
    /\ page = "transformer"
    /\ Ran("inputT")
    /\ inputT' = Plain(v)
    /\ IF currentPreset = "custom"
       THEN calculateTransformation(gamma, beta, inputX, Plain(v))
       ELSE UNCHANGED <<outputX, outputT, history>>
    /\ UNCHANGED <<page, beta, gamma, events, currentPreset, inputX, isAnimating,
                   draggedEvent, fieldVars, swaps>>

\* the text the Swap Frames handler writes into an input field
SwapText(out) == Fixed6Then2(out)

\* click on swapFramesBtn
SwapFrames ==
    /\ page = "transformer"
    /\ Ran("swapFrames")
    /\ swaps < MaxSwaps
    /\ swaps' = swaps + 1
    /\ inputX' = SwapText(outputX)
    /\ inputT' = SwapText(outputT)
    /\ beta' = RNeg(beta)
    /\ gamma' = Gamma(RNeg(beta))
    /\ calculateTransformation(Gamma(RNeg(beta)), RNeg(beta),
                               SwapText(outputX), SwapText(outputT))
    /\ isAnimating' = TRUE
    /\ UNCHANGED <<page, events, currentPreset, draggedEvent, fieldVars>>

\* click on resetBtn
ResetBtn ==
    /\ page = "transformer"
    /\ Ran("reset")
    /\ inputX' = Plain(<<5, 1>>)
    /\ inputT' = Plain(<<2, 1>>)
    /\ beta' = <<4, 5>>
    /\ gamma' = Gamma(<<4, 5>>)
    /\ currentPreset' = "custom"
    /\ calculateTransformation(Gamma(<<4, 5>>), <<4, 5>>, Plain(<<5, 1>>), Plain(<<2, 1>>))
    /\ UNCHANGED <<page, events, isAnimating, draggedEvent, fieldVars, swaps>>

\* the inputX, inputT and beta a preset sets
PresetValues(preset) ==
    CASE preset = "timeDilation" -> [x |-> <<0, 1>>, t |-> <<5, 1>>, beta |-> <<3, 5>>]
      [] preset = "lengthContraction" -> [x |-> <<10, 1>>, t |-> <<0, 1>>, beta |-> <<4, 5>>]
      [] preset = "twinParadox" -> [x |-> <<0, 1>>, t |-> <<10, 1>>, beta |-> <<87, 100>>]
      [] preset = "relativitySimultaneity" -> [x |-> <<5, 1>>, t |-> <<0, 1>>, beta |-> <<9, 10>>]

\* selectPreset(preset), from a click on a preset button
selectPreset(preset) ==
    /\ page = "transformer"
    /\ Ran("selectPreset")
    /\ currentPreset' = preset
    /\ IF preset # "custom"
       THEN LET pv == PresetValues(preset)
            IN  /\ inputX' = Plain(pv.x)
                /\ inputT' = Plain(pv.t)
                /\ beta' = pv.beta
                /\ gamma' = Gamma(pv.beta)
                /\ calculateTransformation(Gamma(pv.beta), pv.beta, Plain(pv.x), Plain(pv.t))
       ELSE UNCHANGED <<inputX, inputT, beta, gamma, outputX, outputT, history>>
    /\ UNCHANGED <<page, events, isAnimating, draggedEvent, fieldVars, swaps>>

\* click on addEventBtn, the prompts answered x, t and the default label
AddEventBtn(x, t) ==
    /\ page = "transformer"
    /\ Ran("addEvent")
    /\ events' = Append(events, [x |-> x, t |-> t,
                                 label |-> <<"Event", Len(events) + 1>>])
    /\ calculateTransformation(gamma, beta, inputX, inputT)
    /\ UNCHANGED <<page, beta, gamma, currentPreset, inputX, inputT, isAnimating,
                   draggedEvent, fieldVars, swaps>>

\* click on clearEventsBtn
ClearEventsBtn ==
    /\ page = "transformer"
    /\ Ran("clearEvents")
    /\ events' = <<events[1]>>
    /\ calculateTransformation(gamma, beta, inputX, inputT)
    /\ UNCHANGED <<page, beta, gamma, currentPreset, inputX, inputT, isAnimating,
                   draggedEvent, fieldVars, swaps>>

\* draw(): two seconds after Swap Frames the animation flag is cleared
DrawFrame ==
    /\ page = "transformer"
    /\ isAnimating
    /\ isAnimating' = FALSE
    /\ UNCHANGED <<page, beta, gamma, events, history, currentPreset, inputX, inputT,
                   outputX, outputT, draggedEvent, fieldVars, calcs, swaps, lastHandler>>

\* the S' coordinates updateEventTransformations lists for the events ev
updateEventTransformations(g, b, ev) ==
    [i \in 1..Len(ev) |-> [x |-> XPrime(g, b, Plain(ev[i].x), Plain(ev[i].t)),
                           t |-> TPrime(g, b, Plain(ev[i].x), Plain(ev[i].t))]]

\* the S' coordinates drawSpacetimeDiagram plots for the events ev (times 30
\* pixels): xPrime = gamma * (x - beta * t), tPrime = gamma * (t - beta * x)
drawSpacetimeDiagram(g, b, ev) ==
    [i \in 1..Len(ev) |-> [x |-> NMul(g, Plain(RSub(ev[i].x, RMul(b, ev[i].t)))),
                           t |-> NMul(g, Plain(RSub(ev[i].t, RMul(b, ev[i].x))))]]

NextTransformer ==
    \/ CalculateBtn
    \/ \E v \in SliderValues : VelocitySlider(v)
    \/ \E v \in BetaInputs : BetaInput(v)
    \/ \E v \in TypedX : InputX(v)
    \/ \E v \in TypedT : InputT(v)
    \/ SwapFrames
    \/ ResetBtn
    \/ \E preset \in Presets : selectPreset(preset)
    \/ AddEventBtn(<<3, 1>>, <<1, 1>>)
    \/ ClearEventsBtn
    \/ DrawFrame

-----------------------------------------------------------------------------
(* Spacetime Explorer (src/lorentz.js, lines 422-863) *)

\* pixels per unit, and the canvas centre (offsetX, offsetY)
scale == 40

offsetX == 400

offsetY == 300

\* values the Explorer's velocity slider carries; the Lorentz factor of each
\* below 1 is rational
ExplorerSliderValues == {<<0, 1>>, <<7, 25>>, <<3, 5>>, <<4, 5>>, <<1, 1>>}

\* values typed into the eventAx, eventAct, eventBx and eventBct fields
TypedCoords == {<<0, 1>>, <<3, 1>>}

\* (x, ct) pairs random(-5, 5) returns to the addEvent handler
RandomCoords == {<< <<-1, 1>>, <<5, 2>> >>, << <<9, 2>>, <<-4, 1>> >>}

\* mouse positions (mouseX, mouseY) of a drag
MousePositions == {<<481, 360>>}

\* dx * dx - dct * dct between the events a and b
Interval(a, b) ==
    LET dx  == RSub(b.x, a.x)
        dct == RSub(b.ct, a.ct)
    IN  RSub(RMul(dx, dx), RMul(dct, dct))

calculateInterval(ev) ==
    IF Len(ev) >= 2 THEN Interval(ev[1], ev[2]) ELSE Zero

\* a transform with the sign of beta * x in ctPrime flipped
TransformEventFlipped(g, b, e) ==
    [x  |-> NMul(g, Plain(RSub(e.x, RMul(b, e.ct)))),
     ct |-> NMul(g, Plain(RAdd(e.ct, RMul(b, e.x))))]

\* the transformed coordinates drawTransformedFrame plots and updateInfo shows:
\* xPrime = gamma * (x - beta * ct), ctPrime = gamma * (ct - beta * x)
TransformEvent(g, b, e) ==
    [x  |-> NMul(g, Plain(RSub(e.x, RMul(b, e.ct)))),
     ct |-> NMul(g, Plain(RSub(e.ct, RMul(b, e.x))))]

drawTransformedFrame(g, b, ev) ==
    [i \in 1..Len(ev) |-> TransformEvent(g, b, ev[i])]

\* String.fromCharCode(65 + n)
Label(n) == <<"A", "B", "C", "D", "E">>[n + 1]

InitExplorer ==
    /\ quiz = NoField
    /\ page = "explorer"
    /\ beta = Zero
    /\ gamma = Plain(One)
    /\ events = <<[x |-> <<2, 1>>, ct |-> <<3, 1>>, label |-> "A"],
                  [x |-> <<4, 1>>, ct |-> <<1, 1>>, label |-> "B"]>>
    /\ draggedEvent = 0
    /\ history = <<>>
    /\ currentPreset = "custom"
    /\ inputX = Plain(Zero)
    /\ inputT = Plain(Zero)
    /\ outputX = Plain(Zero)
    /\ outputT = Plain(Zero)
    /\ isAnimating = FALSE
    /\ calcs = 0
    /\ swaps = 0
    /\ lastHandler = "setup"
    /\ line = NoField
    /\ sample = NoField
    /\ viz = NoField

transformerVars == <<history, currentPreset, inputX, inputT, outputX, outputT,
                     isAnimating, calcs, swaps, lastHandler>>

\* input event of the Explorer's velocitySlider
ExplorerSlider(v) ==
    /\ page = "explorer"
    /\ beta' = v
    /\ gamma' = Gamma(v)
    /\ UNCHANGED <<page, events, draggedEvent, transformerVars, fieldVars>>

\* click on updateEvents with the four fields holding ax, act, bx, bct
UpdateEvents(ax, act, bx, bct) ==
    /\ page = "explorer"
    /\ events' = [events EXCEPT ![1].x = ax, ![1].ct = act,
                                ![2].x = bx, ![2].ct = bct]
    /\ UNCHANGED <<page, beta, gamma, draggedEvent, transformerVars, fieldVars>>

\* click on addEvent, random(-5, 5) returning xy[1] and then xy[2]
AddEvent(xy) ==
    /\ page = "explorer"
    /\ IF Len(events) < 5
       THEN events' = Append(events, [x |-> xy[1], ct |-> xy[2],
                                      label |-> Label(Len(events))])
       ELSE UNCHANGED events
    /\ UNCHANGED <<page, beta, gamma, draggedEvent, transformerVars, fieldVars>>

\* a clearEvents that keeps the first event only
ClearEventsKeepsFirst ==
    /\ page = "explorer"
    /\ events' = SubSeq(events, 1, 1)
    /\ draggedEvent' = IF draggedEvent > 1 THEN -1 ELSE draggedEvent
    /\ UNCHANGED <<page, beta, gamma, transformerVars, fieldVars>>

\* click on clearEvents; an event being dragged that leaves the list stays
\* the dragged object (-1)
ClearEvents ==
    /\ page = "explorer"
    /\ events' = SubSeq(events, 1, 2)
    /\ draggedEvent' = IF draggedEvent > 2 THEN -1 ELSE draggedEvent
    /\ UNCHANGED <<page, beta, gamma, transformerVars, fieldVars>>

\* click on resetView
ResetView ==
    /\ page = "explorer"
    /\ beta' = Zero
    /\ gamma' = Plain(One)
    /\ UNCHANGED <<page, events, draggedEvent, transformerVars, fieldVars>>

\* the event mousePressed picks with the mouse on event i: the first event
\* less than 15 pixels away
PickedEvent(ev, i) ==
    LET near(j) == RLess(RAdd(RMul(RSub(ev[j].x, ev[i].x), RSub(ev[j].x, ev[i].x)),
                              RMul(RSub(ev[j].ct, ev[i].ct), RSub(ev[j].ct, ev[i].ct))),
                         Rat(15 * 15, scale * scale))
    IN  CHOOSE j \in 1..i : near(j) /\ \A k \in 1..(j - 1) : ~near(k)

\* mousePressed() with the mouse on event i
MousePressed(i) ==
    /\ page = "explorer"
    /\ i \in 1..Len(events)
    /\ draggedEvent' = PickedEvent(events, i)
    /\ UNCHANGED <<page, beta, gamma, events, transformerVars, fieldVars>>

\* mouseDragged() with the mouse at pos
MouseDragged(pos) ==
    /\ page = "explorer"
    /\ draggedEvent # 0
    /\ IF draggedEvent > 0
       THEN events' = [events EXCEPT
                ![draggedEvent].x = Rat(pos[1] - offsetX, scale),
                ![draggedEvent].ct = Rat(-(pos[2] - offsetY), scale)]
       ELSE UNCHANGED events
    /\ UNCHANGED <<page, beta, gamma, draggedEvent, transformerVars, fieldVars>>

\* mouseReleased()
MouseReleased ==
    /\ page = "explorer"
    /\ draggedEvent # 0
    /\ draggedEvent' = 0
    /\ UNCHANGED <<page, beta, gamma, events, transformerVars, fieldVars>>

NextExplorer ==
    \/ \E v \in ExplorerSliderValues : ExplorerSlider(v)
    \/ \E ax, act, bx, bct \in TypedCoords : UpdateEvents(ax, act, bx, bct)
    \/ \E xy \in RandomCoords : AddEvent(xy)
    \/ ClearEvents
    \/ ResetView
    \/ \E i \in 1..5 : MousePressed(i)
    \/ \E pos \in MousePositions : MouseDragged(pos)
    \/ MouseReleased

\* the two pages of src/lorentz.js
SpecLorentz ==
    (InitTransformer \/ InitExplorer) /\ [][NextTransformer \/ NextExplorer]_vars

-----------------------------------------------------------------------------
(* Field-line tracers and field evaluators (src/fields.js, src/unnamed/part_000,
   src/unnamed/part_002).  Coordinates are in fixed point: the sketch that
   draws in units (part_000) counts thousandths of a unit, the sketches that
   draw in pixels (fields.js, part_002) count tenths of a pixel.  Quotients
   are cut toward zero or rounded to nearest so that mirror images stay
   mirror images. *)

\* a / b cut toward zero, and rounded to nearest
SDiv(a, b) == Sgn(a) * (Abs(a) \div b)

RDiv(a, b) == Sgn(a) * ((2 * Abs(a) + b) \div (2 * b))

Max(a, b) == IF a > b THEN a ELSE b

\* sqrt(dx * dx + dy * dy)
Dist(dx, dy) == ISqrt(dx * dx + dy * dy)

\* 1000 * cos(i * TWO_PI / n) for the n the sketches use
CosTable ==
    [n \in {12, 20, 32} |->
        CASE n = 12 -> <<1000, 866, 500, 0, -500, -866, -1000, -866, -500, 0, 500, 866>>
          [] n = 20 -> <<1000, 951, 809, 588, 309, 0, -309, -588, -809, -951, -1000, -951,
                     -809, -588, -309, 0, 309, 588, 809, 951>>
          [] n = 32 -> <<1000, 981, 924, 831, 707, 556, 383, 195, 0, -195, -383, -556,
                     -707, -831, -924, -981, -1000, -981, -924, -831, -707, -556,
                     -383, -195, 0, 195, 383, 556, 707, 831, 924, 981>>]

Cos(i, n) == CosTable[n][(i % n) + 1]

Sin(i, n) == CosTable[n][((i + n - n \div 4) % n) + 1]

\* q * d / r^law for law 2 (d / (r * r)) and law 3 (d / (r * r * r)), in units
\* that keep five digits of the direction d / r
FieldTerm(q, d, r, law) ==
    LET a == SDiv(d * 100000, r)
        b == SDiv(a * 10000, r)
    IN  q * (IF law = 2 THEN b ELSE SDiv(b * 100, r))

\* 1 / (r * r) in the units of FieldTerm(1, d, r, 3)
InvSquare(r) == SDiv(SDiv(1000000000, r) * 100, r)

\* mag = sqrt(ex * ex + ey * ey); if (mag > 0) the step
\* <<(ex / mag) * stepSize, (ey / mag) * stepSize>>, else <<0, 0>>
StepAlong(ex, ey, stepSize) ==
    LET m  == Max(Abs(ex), Abs(ey))
        k  == m \div 20000 + 1
        ux == IF m > 20000 THEN SDiv(ex, k) ELSE ex * (20000 \div m)
        uy == IF m > 20000 THEN SDiv(ey, k) ELSE ey * (20000 \div m)
    IN  IF m = 0 THEN <<0, 0>>
        ELSE <<RDiv(ux * stepSize, Dist(ux, uy)), RDiv(uy * stepSize, Dist(ux, uy))>>

\* the loop bound `steps` of each tracer
Steps(fn) ==
    CASE fn = "fields.drawFieldLine" -> 150
      [] fn = "fields.drawDipoleFieldLine" -> 200
      [] fn = "part_000.drawFieldLine" -> 100
      [] fn = "part_000.drawFieldLineToCharge" -> 200
      [] fn = "part_000.drawFieldLineAway" -> 200
      [] fn = "part_000.drawQuadrupoleFieldLine" -> 150
      [] fn = "part_002.drawFieldLine" -> 100

\* stepSize of each tracer
StepSize(fn) ==
    CASE fn = "fields.drawFieldLine" -> 50
      [] fn = "fields.drawDipoleFieldLine" -> 40
      [] fn = "part_000.drawFieldLine" -> 50
      [] fn = "part_000.drawFieldLineToCharge" -> 50
      [] fn = "part_000.drawFieldLineAway" -> 50
      [] fn = "part_000.drawQuadrupoleFieldLine" -> 30
      [] fn = "part_002.drawFieldLine" -> 50

\* the floor max(sqrt(dx*dx + dy*dy), .) each routine puts under a distance
\* before it divides by it: 15 px in the tracers of src/fields.js, 10 px in its
\* calculateFieldStrengthAt, 0.1 units in the tracers of part_000, 10 px in the
\* tracer of part_002
Epsilon(fn) ==
    CASE fn \in {"fields.drawFieldLine", "fields.drawDipoleFieldLine"} -> 150
      [] fn = "calculateFieldStrengthAt" -> 100
      [] fn \in {"part_000.drawFieldLine", "part_000.drawFieldLineToCharge",
                 "part_000.drawFieldLineAway"} -> 100
      [] fn = "part_002.drawFieldLine" -> 100

\* the trace of fn after beginShape(); vertex(x, y): fn was called with
\* (startX, startY) and starts at (x, y); the charge q the line belongs to is at
\* (cx, cy), the other charge q2 at (ax, ay); <<vx, vy>> is the step kept from
\* one iteration to the next
NewLine(fn, startX, startY, x, y, q, cx, cy, q2, ax, ay, vx, vy) ==
    [fn |-> fn, startX |-> startX, startY |-> startY, q |-> q, cx |-> cx,
     cy |-> cy, q2 |-> q2, ax |-> ax, ay |-> ay, x |-> x, y |-> y, px |-> x,
     py |-> y, vx |-> vx, vy |-> vy, i |-> 0, n |-> 1, pc |-> "loop",
     end |-> "none"]

\* a loop that ends only when it breaks
LoopWithoutCap(steps, i, broke) == broke

\* for (let i = 0; i < steps; i++) with the break conditions: the loop is over
\* after iteration number i (counted from 1) if it broke or i reached steps
LoopDone(steps, i, broke) == broke \/ i >= steps

\* one iteration: the point moves by d, the vertex is appended, then the stop
\* conditions are looked at; why names the break condition that holds, if any
Iterate(l, d, why) ==
    [l EXCEPT !.px = l.x, !.py = l.y,
              !.x = l.x + d[1], !.y = l.y + d[2],
              !.i = l.i + 1, !.n = l.n + 1,
              !.pc = IF LoopDone(Steps(l.fn), l.i + 1, why # "none")
                     THEN "done" ELSE "loop",
              !.end = IF why # "none" THEN why
                      ELSE IF LoopDone(Steps(l.fn), l.i + 1, FALSE) THEN "cap"
                      ELSE "none"]

\* what the field pages leave alone
lorentzVars == <<beta, gamma, events, history, currentPreset, inputX, inputT,
                 outputX, outputT, isAnimating, draggedEvent, calcs, swaps,
                 lastHandler, quiz>>

Tracing(fn) == page = "field" /\ line.fn = fn /\ line.pc = "loop"

\* x < 0 || x > width || y < 0 || y > height
OffCanvas(x, y, width, height) == x < 0 \/ x > width \/ y < 0 \/ y > height

\* abs(x) > xMax || abs(y) > yMax
OffDomain(x, y, xMax, yMax) == Abs(x) > xMax \/ Abs(y) > yMax

\* one iteration of drawFieldLine of src/fields.js (canvas 900 x 600).  The
\* factor gamma of the relativistic branch multiplies ex and ey alike and is
\* gone after the normalisation.
drawFieldLine_fields ==
    /\ Tracing("fields.drawFieldLine")
    /\ LET dx == line.x - line.startX
           dy == line.y - line.startY
           r  == Max(Dist(dx, dy), Epsilon(line.fn))
           d  == StepAlong(FieldTerm(1, dx, r, 2), FieldTerm(1, dy, r, 2), 50)
           x  == line.x + d[1] * Sgn(line.q)
           y  == line.y + d[2] * Sgn(line.q)
       IN  line' = Iterate(line, <<d[1] * Sgn(line.q), d[2] * Sgn(line.q)>>,
                           IF OffCanvas(x, y, 9000, 6000) THEN "bounds"
                           ELSE IF r > 3000 THEN "far" ELSE "none")
    /\ UNCHANGED <<page, sample, viz, lorentzVars>>

\* break conditions without the capture by the negative charge
drawDipoleFieldLineBreakOffCanvas(x, y, ax, ay) ==
    IF OffCanvas(x, y, 9000, 6000) THEN "bounds" ELSE "none"

\* the break conditions of drawDipoleFieldLine at the new point (x, y), the
\* negative charge at (ax, ay)
drawDipoleFieldLineBreak(x, y, ax, ay) ==
    IF Dist(x - ax, y - ay) < 200 THEN "sink"
    ELSE IF OffCanvas(x, y, 9000, 6000) THEN "bounds"
    ELSE "none"

\* one iteration of drawDipoleFieldLine of src/fields.js: the positive charge
\* at (cx, cy) = (width/2 - separation/2, height/2), the negative one at
\* (ax, ay) = (width/2 + separation/2, height/2)
drawDipoleFieldLine ==
    /\ Tracing("fields.drawDipoleFieldLine")
    /\ LET dx1 == line.x - line.cx
           dy1 == line.y - line.cy
           r1  == Max(Dist(dx1, dy1), Epsilon(line.fn))
           dx2 == line.x - line.ax
           dy2 == line.y - line.ay
           r2  == Max(Dist(dx2, dy2), Epsilon(line.fn))
           d   == StepAlong(FieldTerm(1, dx1, r1, 2) - FieldTerm(1, dx2, r2, 2),
                            FieldTerm(1, dy1, r1, 2) - FieldTerm(1, dy2, r2, 2), 40)
       IN  line' = Iterate(line, d,
                       drawDipoleFieldLineBreak(line.x + d[1], line.y + d[2],
                                                line.ax, line.ay))
    /\ UNCHANGED <<page, sample, viz, lorentzVars>>

\* one iteration of drawFieldLine of src/unnamed/part_000, called with
\* isMagnetic false and maxSteps 8.  The factor 1 / sqrt(factor) of the
\* relativistic branch divides fx and fy alike and is gone after the
\* normalisation.
drawFieldLine_part000 ==
    /\ Tracing("part_000.drawFieldLine")
    /\ LET dx == line.x - line.startX
           dy == line.y - line.startY
           r  == Max(Dist(dx, dy), Epsilon(line.fn))
           s  == IF line.q < 0 THEN -1 ELSE 1
           d  == StepAlong(s * SDiv(dx * 100000, r), s * SDiv(dy * 100000, r), 50)
       IN  line' = Iterate(line, d,
                           IF OffDomain(line.x + d[1], line.y + d[2], 6000, 5000)
                           THEN "bounds"
                           ELSE IF r > 8000 THEN "far" ELSE "none")
    /\ UNCHANGED <<page, sample, viz, lorentzVars>>

\* the combined field of the tracers of part_000 that floor r at 0.1: the
\* charge q taken to sit at (x1, y1) and q2 at (x2, y2)
FlooredField(x, y, q, x1, y1, q2, x2, y2) ==
    LET r1 == Max(Dist(x - x1, y - y1), Epsilon("part_000.drawFieldLineToCharge"))
        r2 == Max(Dist(x - x2, y - y2), Epsilon("part_000.drawFieldLineToCharge"))
    IN  <<FieldTerm(q, x - x1, r1, 3) + FieldTerm(q2, x - x2, r2, 3),
          FieldTerm(q, y - y1, r1, 3) + FieldTerm(q2, y - y2, r2, 3)>>

\* the break conditions of drawFieldLineToCharge at the new point (x, y)
drawFieldLineToChargeBreak(x, y, targetX, targetY) ==
    IF Dist(x - targetX, y - targetY) < 300 THEN "sink"
    ELSE IF OffDomain(x, y, 6000, 5000) THEN "bounds"
    ELSE "none"

\* one iteration of drawFieldLineToCharge: dx1 and dy1 are taken from
\* (startX, startY), the point the line starts at
drawFieldLineToCharge ==
    /\ Tracing("part_000.drawFieldLineToCharge")
    /\ LET e == FlooredField(line.x, line.y, line.q, line.startX, line.startY,
                             line.q2, line.ax, line.ay)
           d == StepAlong(e[1], e[2], 50)
       IN  line' = Iterate(line, d,
                       drawFieldLineToChargeBreak(line.x + d[1], line.y + d[2],
                                                  line.ax, line.ay))
    /\ UNCHANGED <<page, sample, viz, lorentzVars>>

\* one iteration of drawFieldLineAway: the source charge at (cx, cy), the
\* other at (ax, ay)
drawFieldLineAway ==
    /\ Tracing("part_000.drawFieldLineAway")
    /\ LET e == FlooredField(line.x, line.y, line.q, line.cx, line.cy,
                             line.q2, line.ax, line.ay)
           d == StepAlong(e[1], e[2], 50)
       IN  line' = Iterate(line, d,
                           IF OffDomain(line.x + d[1], line.y + d[2], 6000, 5000)
                           THEN "bounds" ELSE "none")
    /\ UNCHANGED <<page, sample, viz, lorentzVars>>

\* calculateElectricFieldAtPoint(x, y, charges) of part_000: charges is a
\* sequence of records [x, y, q]; a charge closer than r3 = 0.001 is skipped
calculateElectricFieldAtPoint(x, y, charges) ==
    LET r(k) == Dist(x - charges[k].x, y - charges[k].y)
        RECURSIVE sum(_, _)
        sum(k, axis) ==
            IF k = 0 THEN 0
            ELSE sum(k - 1, axis)
                 + (IF r(k) > 100
                    THEN FieldTerm(charges[k].q,
                                   IF axis = 1 THEN x - charges[k].x
                                   ELSE y - charges[k].y, r(k), 3)
                    ELSE 0)
    IN  <<sum(Len(charges), 1), sum(Len(charges), 2)>>

\* the four charges of the quadrupole
QuadrupoleCharges(spacing) ==
    <<[x |-> -spacing, y |-> -spacing, q |-> 1],
      [x |-> spacing, y |-> -spacing, q |-> -1],
      [x |-> -spacing, y |-> spacing, q |-> -1],
      [x |-> spacing, y |-> spacing, q |-> 1]>>

\* one iteration of drawQuadrupoleFieldLine, spacing kept in ax
drawQuadrupoleFieldLine ==
    /\ Tracing("part_000.drawQuadrupoleFieldLine")
    /\ LET e == calculateElectricFieldAtPoint(line.x, line.y,
                                              QuadrupoleCharges(line.ax))
           d == StepAlong(e[1], e[2], 30)
       IN  line' = Iterate(line, d,
                           IF OffDomain(line.x + d[1], line.y + d[2], 4000, 4000)
                           THEN "bounds" ELSE "none")
    /\ UNCHANGED <<page, sample, viz, lorentzVars>>

\* one iteration of drawFieldLine of src/unnamed/part_002 (canvas 800 x 600):
\* dx1 and dy1 are taken from (startX, startY); <<vx, vy>> is vx * stepSize,
\* vy * stepSize
drawFieldLine_part002 ==
    /\ Tracing("part_002.drawFieldLine")
    /\ LET dx1 == line.x - line.startX
           dy1 == line.y - line.startY
           r1  == Max(Dist(dx1, dy1), Epsilon(line.fn))
           dx2 == line.x - line.ax
           dy2 == line.y - line.ay
           r2  == Max(Dist(dx2, dy2), Epsilon(line.fn))
           ex  == IF line.q2 # 0
                  THEN FieldTerm(line.q, dx1, r1, 2) + FieldTerm(line.q2, dx2, r2, 2)
                  ELSE FieldTerm(line.q, dx1, r1, 2)
           ey  == IF line.q2 # 0
                  THEN FieldTerm(line.q, dy1, r1, 2) + FieldTerm(line.q2, dy2, r2, 2)
                  ELSE FieldTerm(line.q, dy1, r1, 2)
           d   == StepAlong(ex, ey, 50)
           s   == IF line.q < 0 THEN -1 ELSE 1
           v   == IF d # <<0, 0>> THEN <<s * d[1], s * d[2]>>
                  ELSE <<line.vx, line.vy>>
       IN  line' = [Iterate(line, v,
                            IF OffCanvas(line.x + v[1], line.y + v[2], 8000, 6000)
                            THEN "bounds" ELSE "none")
                    EXCEPT !.vx = v[1], !.vy = v[2]]
    /\ UNCHANGED <<page, sample, viz, lorentzVars>>

\* the field lines the sketches trace: seed i of n around the charge.  The
\* charge of src/fields.js is at centerX = width/2 + (posX + velocity * time *
\* 0.5) * 50: in the middle of the canvas (4500), or past its right edge
\* (9500) once the moving charge has drifted there (velocity 0.8, time 25).
FieldsLines ==
    {NewLine("fields.drawFieldLine",
             cx + RDiv(250 * Cos(i, 20), 1000), 3000 + RDiv(250 * Sin(i, 20), 1000),
             cx + RDiv(250 * Cos(i, 20), 1000), 3000 + RDiv(250 * Sin(i, 20), 1000),
             q, cx, 3000, 0, 0, 0, 0, 0)
         : i \in {0, 7}, q \in {1, -1, 0}, cx \in {4500, 9500}}
    \cup
    {NewLine("fields.drawDipoleFieldLine", 3750, 3000,
             3750 + RDiv(200 * Cos(i, 20), 1000), 3000 + RDiv(200 * Sin(i, 20), 1000),
             1, 3750, 3000, -1, 5250, 3000, 0, 0) : i \in 0..19}

Part000Lines ==
    {NewLine("part_000.drawFieldLine",
             RDiv(500 * Cos(i, 20), 1000), RDiv(500 * Sin(i, 20), 1000),
             RDiv(500 * Cos(i, 20), 1000), RDiv(500 * Sin(i, 20), 1000),
             q, 0, 0, 0, 0, 0, 0, 0) : i \in {0, 7}, q \in {1, -1}}
    \cup
    {NewLine("part_000.drawFieldLineToCharge",
             -1000 + RDiv(300 * Cos(i, 12), 1000), RDiv(300 * Sin(i, 12), 1000),
             -1000 + RDiv(300 * Cos(i, 12), 1000), RDiv(300 * Sin(i, 12), 1000),
             1, -1000, 0, -1, 1000, 0, 0, 0) : i \in 0..11}
    \cup
    {NewLine("part_000.drawFieldLineAway",
             -1500 + RDiv(300 * Cos(2 * i, 32), 1000), RDiv(300 * Sin(2 * i, 32), 1000),
             -1500 + RDiv(300 * Cos(2 * i, 32), 1000), RDiv(300 * Sin(2 * i, 32), 1000),
             1, -1500, 0, 1, 1500, 0, 0, 0) : i \in 0..15}
    \cup
    {NewLine("part_000.drawFieldLineAway",
             1500 + RDiv(300 * Cos(2 * i + 1, 32), 1000),
             RDiv(300 * Sin(2 * i + 1, 32), 1000),
             1500 + RDiv(300 * Cos(2 * i + 1, 32), 1000),
             RDiv(300 * Sin(2 * i + 1, 32), 1000),
             1, 1500, 0, 1, -1500, 0, 0, 0) : i \in 0..15}
    \cup
    {NewLine("part_000.drawQuadrupoleFieldLine",
             -1500 + RDiv(300 * Cos(8 * i, 32), 1000),
             -1500 + RDiv(300 * Sin(8 * i, 32), 1000),
             -1500 + RDiv(300 * Cos(8 * i, 32), 1000),
             -1500 + RDiv(300 * Sin(8 * i, 32), 1000),
             1, -1500, -1500, 0, 1500, 0, 0, 0) : i \in 0..3}

Part002Lines ==
    {NewLine("part_002.drawFieldLine",
             4000 + RDiv(300 * Cos(i, 20), 1000), 3000 + RDiv(300 * Sin(i, 20), 1000),
             4000 + RDiv(300 * Cos(i, 20), 1000), 3000 + RDiv(300 * Sin(i, 20), 1000),
             q, 4000, 3000, 0, 0, 0,
             RDiv(50 * Cos(i, 20), 1000), RDiv(50 * Sin(i, 20), 1000))
         : i \in {0, 7}, q \in {1, -1}}
    \cup
    {NewLine("part_002.drawFieldLine", 3000, 3000, 3000, 3000,
             1, 3000, 3000, -1, 5000, 3000,
             RDiv(50 * Cos(i, 20), 1000), RDiv(50 * Sin(i, 20), 1000)) : i \in {7}}

\* calculateFieldStrengthAt(x, y) of src/fields.js in units of k * e, for a
\* charge of 1 at the centre of the canvas (stationary, moving) and for the
\* dipole; any other scenario leaves totalStrength 0
calculateFieldStrengthAt(scenario, x, y) ==
    CASE scenario \in {"stationary", "moving"} ->
            InvSquare(Max(Dist(x - 4500, y - 3000), Epsilon("calculateFieldStrengthAt")))
      [] scenario = "dipole" ->
            InvSquare(Max(Dist(x - 3750, y - 3000), Epsilon("calculateFieldStrengthAt")))
            + InvSquare(Max(Dist(x - 5250, y - 3000), Epsilon("calculateFieldStrengthAt")))
      [] OTHER -> 0

\* the cell centres (i + 0.5) * cellSize drawFieldStrength evaluates
CellCentres == {<<225 + 450 * i, 225 + 450 * j>> : i \in {0, 4, 8, 9, 10, 11, 13, 19},
                                                  j \in {0, 6, 9}}

\* drawFieldStrength evaluating the cell centre pt
FieldStrengthAt(scenario, pt) ==
    /\ page = "field"
    /\ line = NoField
    /\ sample' = [fn |-> "calculateFieldStrengthAt", scenario |-> scenario,
                  x |-> pt[1], y |-> pt[2],
                  strength |-> calculateFieldStrengthAt(scenario, pt[1], pt[2])]
    /\ UNCHANGED <<page, line, viz, lorentzVars>>

\* the calls of calculateElectricFieldAtPoint by the vector fields of
\* drawTwoCharges, drawDipoleVectorField and drawQuadrupoleField: grid points
\* more than 0.3 away from every charge, and the charges of the scenario
VectorFieldCalls ==
    {<<<<x, y>>, <<[x |-> -1500, y |-> 0, q |-> 1], [x |-> 1500, y |-> 0, q |-> 1]>>>> :
        x \in {-10000, -3000, 0, 500, 4000}, y \in {-7000, 0, 1500}}
    \cup
    {<<<<x, y>>, <<[x |-> -1000, y |-> 0, q |-> 1], [x |-> 1000, y |-> 0, q |-> -1]>>>> :
        x \in {-4000, -2000, 0, 1200, 2800}, y \in {-3000, -200, 600}}
    \cup
    {<<<<x, y>>, QuadrupoleCharges(1500)>> :
        x \in {-3000, -1400, 200, 1800}, y \in {-3000, -200, 1000}}

\* a vector field of part_000 evaluating the grid point pt
ElectricFieldAtPoint(pt, charges) ==
    /\ page = "field"
    /\ line = NoField
    /\ sample' = [fn |-> "calculateElectricFieldAtPoint", charges |-> charges,
                  x |-> pt[1], y |-> pt[2],
                  e |-> calculateElectricFieldAtPoint(pt[1], pt[2], charges)]
    /\ UNCHANGED <<page, line, viz, lorentzVars>>

\* the vector <<ex, ey>> drawElectricVectors of part_000 computes, before it
\* is normalised for drawing, at the displacement (dx, dy) from the charge q
\* moving with velocity v along x.  rPrime = r * sqrt(1 - beta^2 sin^2(theta))
\* is sqrt(r^2 - (beta * dy)^2), and PI/4 < abs(theta) < 3*PI/4 is
\* abs(dy) > abs(dx).
drawElectricVectors(dx, dy, q, v) ==
    LET r      == Dist(dx, dy)
        g      == Gamma(v).m
        by     == SDiv(dy * v[1], v[2])
        rPrime == ISqrt(dx * dx + dy * dy - by * by)
        ex     == SDiv(FieldTerm(q, dx, rPrime, 3) * g[1], g[2])
        ey     == SDiv(FieldTerm(q, dy, rPrime, 3) * g[1], g[2])
    IN  IF v = Zero
        THEN <<FieldTerm(q, dx, r, 3), FieldTerm(q, dy, r, 3)>>
        ELSE <<ex, IF Abs(dy) > Abs(dx) THEN SDiv(ey * g[1], g[2]) ELSE ey>>

\* grid points (px, py) of drawElectricVectors more than 0.5 from the charge
\* at the origin
VectorGrid == {<<px, py>> : px \in {-5000, -1500, 0, 2000, 3500},
                            py \in {-4000, -1000, 0, 1500, 3000}}
                 \ {<<0, 0>>}

\* the velocities drawStationaryCharge (0) and drawMovingCharge (the default
\* 0.6 of the scenario, and slider values) pass
VectorVelocities == {Zero, <<3, 5>>, <<4, 5>>}

\* one vector of drawElectricVectors
ElectricVectorAt(pt, q, v) ==
    /\ page = "field"
    /\ line = NoField
    /\ sample' = [fn |-> "drawElectricVectors", x |-> pt[1], y |-> pt[2],
                  q |-> q, v |-> v,
                  e |-> drawElectricVectors(pt[1], pt[2], q, v)]
    /\ UNCHANGED <<page, line, viz, lorentzVars>>

InitField ==
    /\ quiz = NoField
    /\ page = "field"
    /\ line \in FieldsLines \cup Part000Lines \cup Part002Lines \cup {NoField}
    /\ sample = NoField
    /\ viz = NoField
    /\ beta = Zero
    /\ gamma = Plain(One)
    /\ events = <<>>
    /\ history = <<>>
    /\ currentPreset = "custom"
    /\ inputX = Plain(Zero)
    /\ inputT = Plain(Zero)
    /\ outputX = Plain(Zero)
    /\ outputT = Plain(Zero)
    /\ isAnimating = FALSE
    /\ draggedEvent = 0
    /\ calcs = 0
    /\ swaps = 0
    /\ lastHandler = "setup"

NextField ==
    \/ drawFieldLine_fields
    \/ drawDipoleFieldLine
    \/ drawFieldLine_part000
    \/ drawFieldLineToCharge
    \/ drawFieldLineAway
    \/ drawQuadrupoleFieldLine
    \/ drawFieldLine_part002
    \/ \E scenario \in {"stationary", "dipole", "wire"}, pt \in CellCentres :
          FieldStrengthAt(scenario, pt)
    \/ \E call \in VectorFieldCalls : ElectricFieldAtPoint(call[1], call[2])
    \/ \E pt \in VectorGrid, q \in {1, -1}, v \in VectorVelocities :
          ElectricVectorAt(pt, q, v)

SpecField == InitField /\ [][NextField]_vars

-----------------------------------------------------------------------------
(* Controls, info panel and frames of the Field Visualizer (src/fields.js,
   src/unnamed/part_000, src/unnamed/part_002).  page names the sketch.
   Positions are in thousandths of a unit.  A field strength is kept as
   [i, e] for i * 10^e, the product of the physical constants cut to four
   digits. *)

Sketches == {"fields", "part_000", "part_002"}

\* the cases of the switch in draw() (the options of scenarioSelect)
Scenarios(p) ==
    CASE p = "fields" -> {"stationary", "moving", "dipole", "wire",
                          "parallelPlates", "relativistic"}
      [] p = "part_000" -> {"stationary", "moving", "dipole", "wire",
                            "twoCharges", "quadrupole"}
      [] p = "part_002" -> {"stationary", "moving", "dipole", "wire"}

\* the charges of the `scenarios` catalog of part_000
scenarios ==
    [s \in Scenarios("part_000") |->
        CASE s = "stationary" -> <<[x |-> 0, y |-> 0, q |-> 1]>>
          [] s = "moving" -> <<[x |-> 0, y |-> 0, q |-> 1]>>
          [] s = "dipole" -> <<[x |-> -1000, y |-> 0, q |-> 1],
                               [x |-> 1000, y |-> 0, q |-> -1]>>
          [] s = "wire" -> <<>>
          [] s = "twoCharges" -> <<[x |-> -1000, y |-> 0, q |-> 1],
                                   [x |-> 1000, y |-> 0, q |-> 1]>>
          [] s = "quadrupole" -> <<[x |-> -1000, y |-> -1000, q |-> 1],
                                   [x |-> 1000, y |-> -1000, q |-> -1],
                                   [x |-> -1000, y |-> 1000, q |-> -1],
                                   [x |-> 1000, y |-> 1000, q |-> 1]>>]

\* values of the charge slider, the velocity slider, the velocity input and
\* the field lines slider
ChargeValues == {<<1, 1>>, <<-2, 1>>, <<0, 1>>}

VelocityValues == {<<0, 1>>, <<1, 200>>, <<3, 5>>, <<99, 100>>}

TypedVelocities == {<<1, 200>>, <<-1, 2>>, <<3, 2>>}

LineCounts == {20, 8}

RECURSIVE Pow10(_)
Pow10(k) == IF k = 0 THEN 1 ELSE 10 * Pow10(k - 1)

\* coef * m * 10^e for the rational coef
Strength(coef, m, e) == [i |-> RDiv(coef[1] * m * 10, coef[2]), e |-> e - 1]

\* Math.round(v * 10^p) for the strength v, as <<m, t>> for m * 10^t
Digits(v, p) ==
    LET s == v.e + p
    IN  IF s >= 0 THEN <<v.i, s>>
        ELSE IF -s > 9 THEN <<0, 0>>
        ELSE <<RDiv(v.i, Pow10(-s)), 0>>

\* v < 10^t
Below(v, t) ==
    v.i <= 0 \/ (t - v.e >= 0 /\ (t - v.e > 9 \/ v.i < Pow10(t - v.e)))

\* formatScientific(value, 'T') of src/fields.js: the digits of toFixed(2) and
\* the prefix of the unit
formatScientific(v) ==
    IF v.i = 0 THEN [digits |-> <<0, 0>>, unit |-> "T"]
    ELSE IF Below(v, -6) THEN [digits |-> Digits(v, 11), unit |-> "nT"]
    ELSE IF Below(v, -3) THEN [digits |-> Digits(v, 8), unit |-> "uT"]
    ELSE IF Below(v, 0) THEN [digits |-> Digits(v, 5), unit |-> "mT"]
    ELSE IF Below(v, 3) THEN [digits |-> Digits(v, 2), unit |-> "T"]
    ELSE IF Below(v, 6) THEN [digits |-> Digits(v, -1), unit |-> "kT"]
    ELSE [digits |-> Digits(v, -4), unit |-> "MT"]

\* value.toExponential(2) + ' T' of part_000: three digits and the exponent
toExponential(v) ==
    LET len == CHOOSE k \in 1..10 : Pow10(k - 1) <= Abs(v.i) /\ Abs(v.i) < Pow10(k)
        d   == IF len >= 3 THEN RDiv(v.i, Pow10(len - 3)) ELSE v.i * Pow10(3 - len)
    IN  IF v.i = 0 THEN [digits |-> <<0, 0>>, unit |-> <<"e", 0, "T">>]
        ELSE IF Abs(d) = 1000
             THEN [digits |-> <<Sgn(d) * 100, 0>>, unit |-> <<"e", v.e + len, "T">>]
        ELSE [digits |-> <<d, 0>>, unit |-> <<"e", v.e + len - 1, "T">>]

\* a bField that takes the current of the wire to be 1 A whatever the velocity
bFieldOfUnitCurrent(p, scenario, charge, velocity) ==
    IF scenario = "wire" THEN Strength(One, 2000, -10)
    ELSE [i |-> 0, e |-> 0]

\* bField of updateFieldInfo
bFieldOf(p, scenario, charge, velocity) ==
    LET moved == RMul(RAbs(charge), velocity)
    IN  CASE p = "fields" ->
               (IF scenario \in {"stationary", "moving"} /\ RSign(velocity) > 0
                THEN Strength(moved, 4803, -21)
                ELSE IF scenario = "wire" THEN Strength(velocity, 2000, -4)
                ELSE [i |-> 0, e |-> 0])
          [] p = "part_000" ->
               (IF RLess(<<1, 100>>, velocity)
                THEN Strength(RMul(moved, Gamma(velocity).m), 1602, -29)
                ELSE [i |-> 0, e |-> 0])
          [] p = "part_002" ->
               (IF RSign(velocity) > 0 THEN Strength(moved, 4797, -21)
                ELSE [i |-> 0, e |-> 0])

\* the text updateFieldInfo writes into bFieldValue
bFieldText(p, b) ==
    CASE p = "fields" -> formatScientific(b)
      [] p = "part_000" -> toExponential(b)
      [] p = "part_002" -> [digits |-> Digits(b, 2), unit |-> "T"]

updateFieldInfo(p, z) ==
    LET b == bFieldOf(p, z.scenario, z.charge, z.velocity)
    IN  [z EXCEPT !.bField = b, !.bFieldValue = bFieldText(p, b)]

\* updateScenario() of part_000
updateScenario(z) ==
    LET charges == scenarios[z.scenario]
        q == IF charges # <<>> THEN <<charges[1].q, 1>> ELSE z.charge
        v == IF z.scenario = "moving" THEN <<3, 5>> ELSE z.velocity
    IN  updateFieldInfo("part_000", [z EXCEPT !.charge = q, !.velocity = v])

\* what draw() puts on the canvas for the scenario: the charges it draws, the
\* number of field lines it traces from each of them, and whether it draws
\* magnetic field lines around a point charge.  The display options other
\* than showVectors are at their defaults (showElectric, showMagnetic on).
drawScenario(p, z) ==
    LET one   == <<[x |-> 0, y |-> 0, q |-> z.charge[1]]>>
        pair(d, q2) == <<[x |-> -d, y |-> 0, q |-> 1], [x |-> d, y |-> 0, q |-> q2]>>
        n     == z.numFieldLines
        frame(charges, lines, magnetic) ==
            [scenario |-> z.scenario, velocity |-> z.velocity, numFieldLines |-> n,
             showVectors |-> z.showVectors, charges |-> charges, lines |-> lines,
             magnetic |-> magnetic]
    IN  CASE p = "fields" ->
               (CASE z.scenario = "stationary" ->
                       frame(one, <<IF z.showVectors THEN 0 ELSE IF n < 36 THEN n ELSE 36>>,
                             FALSE)
                  [] z.scenario = "moving" ->
                       frame(one, <<IF z.showVectors THEN 0 ELSE IF n < 36 THEN n ELSE 36>>,
                             ~RLess(z.velocity, <<1, 100>>))
                  [] z.scenario = "dipole" -> frame(pair(1500, -1), <<n, 0>>, FALSE)
                  [] z.scenario = "relativistic" ->
                       frame(<<[x |-> -4000, y |-> 0, q |-> z.charge[1]],
                               [x |-> 4000, y |-> 0, q |-> z.charge[1]]>>,
                             <<12, 12>>, FALSE)
                  [] OTHER -> frame(<<>>, <<>>, FALSE))
          [] p = "part_000" ->
               (CASE z.scenario = "stationary" ->
                       frame(one, <<IF z.showVectors THEN 0 ELSE n>>, FALSE)
                  [] z.scenario = "moving" ->
                       frame(one, <<IF z.showVectors THEN 0 ELSE n>>,
                             RLess(<<1, 100>>, z.velocity))
                  [] z.scenario = "dipole" ->
                       frame(pair(1000, -1), IF z.showVectors THEN <<0, 0>> ELSE <<12, 0>>,
                             FALSE)
                  [] z.scenario = "twoCharges" ->
                       frame(pair(1500, 1), IF z.showVectors THEN <<0, 0>> ELSE <<16, 16>>,
                             FALSE)
                  [] z.scenario = "quadrupole" ->
                       frame(QuadrupoleCharges(1500),
                             IF z.showVectors THEN <<0, 0, 0, 0>> ELSE <<4, 0, 0, 0>>, FALSE)
                  [] OTHER -> frame(<<>>, <<>>, FALSE))
          [] p = "part_002" -> frame(<<>>, <<>>, FALSE)

\* the page after setup()
InitVisualizer ==
    /\ quiz = NoField
    /\ page \in Sketches
    /\ viz = LET z == [scenario |-> "stationary", charge |-> One, velocity |-> Zero,
                       numFieldLines |-> 20, showVectors |-> FALSE,
                       bField |-> [i |-> 0, e |-> 0], bFieldValue |-> NoField,
                       frame |-> NoField]
             IN  IF page = "part_000" THEN updateScenario(updateFieldInfo(page, z))
                 ELSE updateFieldInfo(page, z)
    /\ line = NoField
    /\ sample = NoField
    /\ beta = Zero
    /\ gamma = Plain(One)
    /\ events = <<>>
    /\ history = <<>>
    /\ currentPreset = "custom"
    /\ inputX = Plain(Zero)
    /\ inputT = Plain(Zero)
    /\ outputX = Plain(Zero)
    /\ outputT = Plain(Zero)
    /\ isAnimating = FALSE
    /\ draggedEvent = 0
    /\ calcs = 0
    /\ swaps = 0
    /\ lastHandler = "setup"

\* updateScenarioControls() of src/fields.js: whether the control is displayed
\* in the scenario (the other sketches never hide a control)
Displayed(p, control, scenario) ==
    \/ p # "fields"
    \/ control = "charge" /\ scenario \in {"stationary", "moving", "relativistic"}
    \/ control = "velocity" /\ scenario \in {"moving", "relativistic", "wire"}

\* change event of scenarioSelect
ScenarioSelect(s) ==
    /\ page \in Sketches
    /\ s \in Scenarios(page)
    /\ viz' = LET z == [viz EXCEPT !.scenario = s]
              IN  CASE page = "fields" -> updateFieldInfo(page, z)
                    [] page = "part_000" -> updateScenario(z)
                    [] page = "part_002" -> z
    /\ UNCHANGED <<page, line, sample, lorentzVars>>

\* input event of chargeSlider
ChargeSlider(q) ==
    /\ page \in Sketches
    /\ Displayed(page, "charge", viz.scenario)
    /\ viz' = updateFieldInfo(page, [viz EXCEPT !.charge = q])
    /\ UNCHANGED <<page, line, sample, lorentzVars>>

\* input event of velocitySlider
FieldVelocitySlider(v) ==
    /\ page \in Sketches
    /\ Displayed(page, "velocity", viz.scenario)
    /\ viz' = updateFieldInfo(page, [viz EXCEPT !.velocity = v])
    /\ UNCHANGED <<page, line, sample, lorentzVars>>

\* input event of velocityInput (src/fields.js only)
VelocityInput(v) ==
    /\ page = "fields"
    /\ Displayed(page, "velocity", viz.scenario)
    /\ viz' = LET clamped == IF RLeq(One, RAbs(v)) THEN <<99 * RSign(v), 100>> ELSE v
              IN  updateFieldInfo(page, [viz EXCEPT !.velocity = clamped])
    /\ UNCHANGED <<page, line, sample, lorentzVars>>

\* input event of fieldLinesSlider
FieldLinesSlider(n) ==
    /\ page \in Sketches
    /\ viz' = [viz EXCEPT !.numFieldLines = n]
    /\ UNCHANGED <<page, line, sample, lorentzVars>>

\* change event of showFieldVectors
ShowFieldVectors(checked) ==
    /\ page \in Sketches
    /\ viz' = [viz EXCEPT !.showVectors = checked]
    /\ UNCHANGED <<page, line, sample, lorentzVars>>

\* click on resetBtn
FieldResetBtn ==
    /\ page \in Sketches
    /\ viz' = CASE page = "fields" ->
                     updateFieldInfo(page, [viz EXCEPT !.velocity = Zero, !.charge = One,
                                                       !.scenario = "stationary"])
                [] page = "part_000" -> updateFieldInfo(page, viz)
                [] page = "part_002" ->
                     updateFieldInfo(page, [viz EXCEPT !.velocity = Zero, !.charge = One])
    /\ UNCHANGED <<page, line, sample, lorentzVars>>

\* one frame of draw()
DrawField ==
    /\ page \in Sketches
    /\ viz' = [viz EXCEPT !.frame = drawScenario(page, viz)]
    /\ UNCHANGED <<page, line, sample, lorentzVars>>

NextVisualizer ==
    \/ \E s \in Scenarios("fields") \cup Scenarios("part_000") : ScenarioSelect(s)
    \/ \E q \in ChargeValues : ChargeSlider(q)
    \/ \E v \in VelocityValues : FieldVelocitySlider(v)
    \/ \E v \in TypedVelocities : VelocityInput(v)
    \/ \E n \in LineCounts : FieldLinesSlider(n)
    \/ \E checked \in BOOLEAN : ShowFieldVectors(checked)
    \/ FieldResetBtn
    \/ DrawField

SpecVisualizer == InitVisualizer /\ [][NextVisualizer]_vars

\* The display options.  Here viz also holds options, the booleans of the
\* checkboxes other than showFieldVectors, at the values the globals start
\* with; no frame is drawn.
InitOptions ==
    /\ quiz = NoField
    /\ page \in Sketches
    /\ viz = LET z == [scenario |-> "stationary", charge |-> One, velocity |-> Zero,
                       numFieldLines |-> 20, showVectors |-> FALSE,
                       bField |-> [i |-> 0, e |-> 0], bFieldValue |-> NoField,
                       frame |-> NoField,
                       options |-> [showElectric |-> TRUE, showMagnetic |-> TRUE,
                                    showEquipotentials |-> FALSE, showGrid |-> TRUE,
                                    showFieldStrength |-> TRUE,
                                    showFieldTransformation |-> FALSE]]
             IN  IF page = "part_000" THEN updateScenario(updateFieldInfo(page, z))
                 ELSE updateFieldInfo(page, z)
    /\ line = NoField
    /\ sample = NoField
    /\ beta = Zero
    /\ gamma = Plain(One)
    /\ events = <<>>
    /\ history = <<>>
    /\ currentPreset = "custom"
    /\ inputX = Plain(Zero)
    /\ inputT = Plain(Zero)
    /\ outputX = Plain(Zero)
    /\ outputT = Plain(Zero)
    /\ isAnimating = FALSE
    /\ draggedEvent = 0
    /\ calcs = 0
    /\ swaps = 0
    /\ lastHandler = "setup"

\* a checkbox handler that also puts the charge back at rest
ToggleOptionAtRest(name, checked) ==
    /\ page \in Sketches
    /\ viz' = updateFieldInfo(page, [viz EXCEPT !.options[name] = checked,
                                                !.velocity = Zero])
    /\ UNCHANGED <<page, line, sample, lorentzVars>>

\* change event of the checkbox of name (showElectric, showMagnetic,
\* showEquipotentials, showGrid in every sketch, showFieldStrength in
\* src/fields.js, showTransformation in part_000)
ToggleOption(name, checked) ==
    /\ page \in Sketches
    /\ \/ name \in {"showElectric", "showMagnetic", "showEquipotentials", "showGrid"}
       \/ name = "showFieldStrength" /\ page = "fields"
       \/ name = "showFieldTransformation" /\ page = "part_000"
    /\ viz' = [viz EXCEPT !.options[name] = checked]
    /\ UNCHANGED <<page, line, sample, lorentzVars>>

SpecOptions ==
    InitOptions
    /\ [][\/ \E name \in {"showElectric", "showMagnetic", "showEquipotentials",
                           "showGrid", "showFieldStrength",
                           "showFieldTransformation"}, checked \in BOOLEAN :
               ToggleOption(name, checked)
          \/ \E checked \in BOOLEAN : ShowFieldVectors(checked)
          \/ \E s \in Scenarios("fields") \cup Scenarios("part_000") : ScenarioSelect(s)
          \/ \E q \in ChargeValues : ChargeSlider(q)
          \/ \E v \in VelocityValues : FieldVelocitySlider(v)]_vars

-----------------------------------------------------------------------------
(* The interval of updateInfo in IEEE double arithmetic.  A magnitude is a
   natural number held as a sequence of limbs, least significant first; a
   double is [s, m]: sign s and magnitude m, in units of 2^-70 for a
   coordinate (six limbs) and of 2^-140 for a product (twelve limbs).  The
   coordinates typed are 0 or at least 1/16, so that a double is a whole
   number of units. *)

\* the base of a limb: 2^14
Limb == 16384

\* -1, 0, 1 as a < b, a = b, a > b (magnitudes of equal length)
BigCmp(a, b) ==
    LET RECURSIVE cmp(_)
        cmp(i) == IF i = 0 THEN 0
                  ELSE IF a[i] > b[i] THEN 1
                  ELSE IF a[i] < b[i] THEN -1
                  ELSE cmp(i - 1)
    IN  cmp(Len(a))

\* a + sign * b for magnitudes of equal length, a >= b if sign = -1
BigAdd(a, b, sign) ==
    LET RECURSIVE add(_, _)
        add(i, carry) ==
            IF i > Len(a) THEN <<>>
            ELSE LET t == a[i] + sign * b[i] + carry
                 IN  <<t % Limb>> \o add(i + 1, IF t < 0 THEN -1 ELSE t \div Limb)
    IN  add(1, 0)

\* a * b, of length Len(a) + Len(b)
BigMul(a, b) ==
    LET at(j) == IF j >= 1 /\ j <= Len(b) THEN b[j] ELSE 0
        RECURSIVE column(_, _)
        column(k, i) == IF i = 0 THEN 0
                        ELSE a[i] * at(k + 1 - i) + column(k, i - 1)
        RECURSIVE mul(_, _)
        mul(k, carry) ==
            IF k > Len(a) + Len(b) THEN <<>>
            ELSE LET t == column(k, Len(a)) + carry
                 IN  <<t % Limb>> \o mul(k + 1, t \div Limb)
    IN  mul(1, 0)

\* the number of bits of a: 0 for 0
BitLength(a) ==
    LET RECURSIVE top(_)
        top(i) == IF i = 0 THEN 0 ELSE IF a[i] # 0 THEN i ELSE top(i - 1)
        RECURSIVE bits(_)
        bits(n) == IF n = 0 THEN 0 ELSE 1 + bits(n \div 2)
        t == top(Len(a))
    IN  IF t = 0 THEN 0 ELSE 14 * (t - 1) + bits(a[t])

\* a rounded to 53 significant bits, to nearest, ties to even
Round53(a) ==
    LET k     == BitLength(a) - 53
        at    == k \div 14 + 1
        low   == [i \in 1..Len(a) |-> IF i < at THEN a[i]
                                      ELSE IF i = at THEN a[i] % (2 ^ (k % 14))
                                      ELSE 0]
        unit  == [i \in 1..Len(a) |-> IF i = at THEN 2 ^ (k % 14) ELSE 0]
        half  == [i \in 1..Len(a) |-> IF i = (k - 1) \div 14 + 1
                                      THEN 2 ^ ((k - 1) % 14) ELSE 0]
        odd   == (a[at] \div (2 ^ (k % 14))) % 2 = 1
        up    == BigCmp(low, half) = 1 \/ (BigCmp(low, half) = 0 /\ odd)
        down  == BigAdd(a, low, -1)
    IN  IF k <= 0 THEN a
        ELSE IF up THEN BigAdd(down, unit, 1) ELSE down

\* parseFloat of the decimal text of n / d: the double nearest to it
parseFloat(n, d) ==
    LET RECURSIVE limbs(_, _)
        limbs(r, count) == IF count = 0 THEN <<>>
                           ELSE limbs((r * Limb) % d, count - 1)
                                \o <<(r * Limb) \div d>>
        RECURSIVE rest(_, _)
        rest(r, count) == IF count = 0 THEN r ELSE rest((r * Limb) % d, count - 1)
        whole  == limbs(Abs(n) % d, 5) \o <<Abs(n) \div d>>
        sticky == IF rest(Abs(n) % d, 5) # 0 /\ whole[1] % 2 = 0 THEN 1 ELSE 0
    IN  [s |-> Sgn(n), m |-> Round53([whole EXCEPT ![1] = @ + sticky])]

\* x - y in double arithmetic
FloatSub(x, y) ==
    LET order == BigCmp(x.m, y.m)
    IN  IF y.s = 0 THEN x
        ELSE IF x.s = 0 THEN [s |-> -y.s, m |-> y.m]
        ELSE IF x.s # y.s THEN [s |-> x.s, m |-> Round53(BigAdd(x.m, y.m, 1))]
        ELSE IF order = 0 THEN [s |-> 0, m |-> BigAdd(x.m, x.m, -1)]
        ELSE IF order = 1 THEN [s |-> x.s, m |-> Round53(BigAdd(x.m, y.m, -1))]
        ELSE [s |-> -x.s, m |-> Round53(BigAdd(y.m, x.m, -1))]

\* x * y in double arithmetic
FloatMul(x, y) == [s |-> x.s * y.s, m |-> Round53(BigMul(x.m, y.m))]

\* updateInfo() on the events A = (ax, act) and B = (bx, bct), each coordinate
\* a double: interval is dx * dx - dct * dct of calculateInterval
updateInfo(ax, act, bx, bct) ==
    LET dx       == FloatSub(bx, ax)
        dct      == FloatSub(bct, act)
        interval == FloatSub(FloatMul(dx, dx), FloatMul(dct, dct))
    IN  [interval |-> interval,
         intervalType |-> IF interval.s < 0 THEN "Timelike"
                          ELSE IF interval.s > 0 THEN "Spacelike"
                          ELSE "Lightlike"]

\* the values typed into eventAx, eventAct, eventBx, eventBct
TypedCoordinates == {<<0, 1>>, <<1, 10>>, <<1, 5>>, <<3, 10>>, <<1, 2>>, <<-1, 10>>}

\* the four fields typed, updateEvents not yet clicked
InitInterval ==
    /\ quiz = NoField
    /\ page = "interval"
    /\ sample \in [fn : {"typed"}, ax : TypedCoordinates, act : TypedCoordinates,
                   bx : TypedCoordinates, bct : TypedCoordinates]
    /\ line = NoField
    /\ viz = NoField
    /\ beta = Zero
    /\ gamma = Plain(One)
    /\ events = <<>>
    /\ history = <<>>
    /\ currentPreset = "custom"
    /\ inputX = Plain(Zero)
    /\ inputT = Plain(Zero)
    /\ outputX = Plain(Zero)
    /\ outputT = Plain(Zero)
    /\ isAnimating = FALSE
    /\ draggedEvent = 0
    /\ calcs = 0
    /\ swaps = 0
    /\ lastHandler = "setup"

\* click on updateEvents: the four fields are parsed and updateInfo runs
UpdateTypedEvents ==
    /\ page = "interval"
    /\ sample.fn = "typed"
    /\ sample' = [fn |-> "updateInfo", ax |-> sample.ax, act |-> sample.act,
                  bx |-> sample.bx, bct |-> sample.bct,
                  info |-> updateInfo(parseFloat(sample.ax[1], sample.ax[2]),
                                      parseFloat(sample.act[1], sample.act[2]),
                                      parseFloat(sample.bx[1], sample.bx[2]),
                                      parseFloat(sample.bct[1], sample.bct[2]))]
    /\ UNCHANGED <<page, line, viz, lorentzVars>>

SpecInterval == InitInterval /\ [][UpdateTypedEvents]_vars

-----------------------------------------------------------------------------
(* Properties of src/lorentz.js *)

\* |b| < 1
Subluminal(b) == RLess(RAbs(b), One)

\* the interval between events i and j of the transformed frame
TransformedInterval(g, b, ev, i, j) ==
    LET tr == drawTransformedFrame(g, b, ev)
    IN  Interval([x |-> tr[i].x.m, ct |-> tr[i].ct.m],
                 [x |-> tr[j].x.m, ct |-> tr[j].ct.m])

\* C1: in the Spacetime Explorer, for every beta with |beta| < 1 and every pair
\* of events, the interval dx^2 - dct^2 of the transformed coordinates equals
\* the interval of the original coordinates, which for the first two events is
\* what calculateInterval returns.
IntervalInvariance ==
    (page = "explorer" /\ Subluminal(beta)) =>
        /\ TransformedInterval(gamma, beta, events, 1, 2) = calculateInterval(events)
        /\ \A i, j \in 1..Len(events) :
              TransformedInterval(gamma, beta, events, i, j)
                  = Interval(events[i], events[j])

\* a moving frame, a dragged event A, and a transform that moves both events
IntervalInvarianceWitness ==
    /\ page = "explorer"
    /\ beta = <<3, 5>>
    /\ events[1].x = <<81, 40>>
    /\ Len(events) >= 3
    /\ calculateInterval(events) # Zero
    /\ TransformEvent(gamma, beta, events[1]).x # Plain(events[1].x)
    /\ TransformEvent(gamma, beta, events[2]).ct # Plain(events[2].ct)

\* u and v differ by at most 1/100
Near(u, v) ==
    LET d == NSub(u, v)
    IN  /\ d.k = "num"
        /\ d.p = Zero
        /\ RLeq(RAbs(d.m), <<1, 100>>)
        /\ RLeq(RAbs(d.q), <<1000, 1>>)

\* the Lorentz factor of b is rational, so Gamma(b) is exact
ExactGamma(b) ==
    LET d2 == b[2] * b[2] - b[1] * b[1]
    IN  d2 > 0 /\ ISqrt(d2) * ISqrt(d2) = d2

\* C2: in the Lorentz Transformer, after a transform is computed for (x, t)
\* with beta and Swap Frames is pressed, the outputs are the original (x, t)
\* again, for every beta with |beta| < 1 (here to within 1/100, and for the
\* beta whose Lorentz factor the model holds exactly).
SwapRestoresInputs ==
    (/\ page = "transformer"
     /\ lastHandler = "swapFrames"
     /\ Len(history) >= 2
     /\ history[2].beta = RNeg(beta)
     /\ Subluminal(beta)
     /\ ExactGamma(beta)) =>
        /\ Near(outputX, history[2].input.x)
        /\ Near(outputT, history[2].input.t)

\* C3: beta as stored by the velocity controls always satisfies |beta| < 1,
\* so gamma is always finite.
BetaBelowOne ==
    page \in {"transformer", "explorer"} => (Subluminal(beta) /\ IsFinite(gamma))

\* C4: in both pages of lorentz.js the stored gamma is 1 / sqrt(1 - beta^2)
\* of the stored beta, in every reachable state.
GammaFollowsBeta ==
    page \in {"transformer", "explorer"} => gamma = Gamma(beta)

\* the Transformer's slider and the Explorer's slider have both stored a new beta
GammaFollowsBetaWitness ==
    \/ /\ page = "transformer"
       /\ lastHandler = "velocitySlider"
       /\ beta = <<3, 5>>
       /\ gamma = Plain(<<5, 4>>)
    \/ /\ page = "explorer"
       /\ beta = <<4, 5>>
       /\ gamma = Plain(<<5, 3>>)

-----------------------------------------------------------------------------
(* Properties of the field-line tracers and the field evaluators *)

\* C5: every trace terminates with at most steps + 1 vertices: the polyline
\* has one vertex more than iterations run, a running loop has run fewer than
\* steps iterations, and no trace holds more than steps + 1 vertices.
TraceTerminates ==
    (page = "field" /\ line # NoField) =>
        /\ line.n = line.i + 1
        /\ line.n <= Steps(line.fn) + 1
        /\ line.pc = "loop" => line.i < Steps(line.fn)
        /\ line.pc = "done" =>
              \/ line.end \in {"sink", "bounds", "far"}
              \/ line.end = "cap" /\ line.i = Steps(line.fn)

\* a trace that ran into the step cap with steps + 1 vertices
TraceTerminatesWitness ==
    /\ page = "field"
    /\ line # NoField
    /\ line.fn = "part_000.drawQuadrupoleFieldLine"
    /\ line.pc = "done"
    /\ line.end = "cap"
    /\ line.n = 151

\* the squared distance between two points
Dist2(x1, y1, x2, y2) == (x1 - x2) * (x1 - x2) + (y1 - y2) * (y1 - y2)

\* C6: in the single-charge drawFieldLine (fields.js, part_000), for a non-zero
\* charge every iteration moves the point by stepSize (here to within one
\* fixed-point unit), so the line leaves the seed point.
StepAdvances ==
    (/\ page = "field"
     /\ line # NoField
     /\ line.fn \in {"fields.drawFieldLine", "part_000.drawFieldLine"}
     /\ line.q # 0
     /\ line.n >= 2) =>
        /\ Dist2(line.x, line.y, line.px, line.py)
              >= (StepSize(line.fn) - 1) * (StepSize(line.fn) - 1)
        /\ Dist2(line.x, line.y, line.px, line.py)
              <= (StepSize(line.fn) + 1) * (StepSize(line.fn) + 1)
        /\ <<line.x, line.y>> # <<line.startX, line.startY>>

\* the stop conditions of the two dipole tracers at the point (x, y)
DipoleStop(l, x, y) ==
    IF l.fn = "fields.drawDipoleFieldLine"
    THEN Dist2(x, y, l.ax, l.ay) < 200 * 200
         \/ x < 0 \/ x > 9000 \/ y < 0 \/ y > 6000
    ELSE Dist2(x, y, l.ax, l.ay) < 300 * 300
         \/ Abs(x) > 6000 \/ Abs(y) > 5000

\* C7: a dipole trace (drawDipoleFieldLine, drawFieldLineToCharge) stops at the
\* first iteration after which the point is captured by the negative charge
\* or out of bounds, or at the step cap: while the loop runs no vertex an
\* iteration appended satisfies a stop condition, and a finished trace has only
\* its last vertex doing so, or is at the cap.
DipoleStopsAtFirst ==
    (/\ page = "field"
     /\ line # NoField
     /\ line.fn \in {"fields.drawDipoleFieldLine", "part_000.drawFieldLineToCharge"}
     /\ line.n >= 2) =>
        /\ line.pc = "loop" =>
              ~DipoleStop(line, line.x, line.y) /\ line.i < Steps(line.fn)
        /\ line.pc = "done" =>
              DipoleStop(line, line.x, line.y) \/ line.i = Steps(line.fn)
        /\ line.n >= 3 => ~DipoleStop(line, line.px, line.py)

\* a dipole trace captured by the negative charge well before the cap
DipoleStopsAtFirstWitness ==
    /\ page = "field"
    /\ line # NoField
    /\ line.fn = "fields.drawDipoleFieldLine"
    /\ line.pc = "done"
    /\ line.end = "sink"
    /\ line.n = 184
    /\ Dist2(line.x, line.y, line.ax, line.ay) < 200 * 200
    /\ Dist2(line.px, line.py, line.ax, line.ay) >= 200 * 200

\* C8: the line of a single point charge moves away from the charge when
\* q > 0 and toward it when q < 0.
DirectionFollowsChargeSign ==
    (/\ page = "field"
     /\ line # NoField
     /\ line.fn \in {"fields.drawFieldLine", "part_002.drawFieldLine"}
     /\ line.q2 = 0
     /\ line.n >= 2) =>
        /\ line.q > 0 => Dist2(line.x, line.y, line.cx, line.cy)
                            > Dist2(line.px, line.py, line.cx, line.cy)
        /\ line.q < 0 => Dist2(line.x, line.y, line.cx, line.cy)
                            < Dist2(line.px, line.py, line.cx, line.cy)

\* C9: with two like charges every line traced by drawFieldLineAway ends by
\* leaving the domain; none ends at the step cap or at a point between the
\* charges.
LikeChargeLinesLeave ==
    (/\ page = "field"
     /\ line # NoField
     /\ line.fn = "part_000.drawFieldLineAway") =>
        (line.pc = "done" =>
            /\ line.end = "bounds"
            /\ line.n < 201
            /\ Abs(line.x) > 6000 \/ Abs(line.y) > 5000)

\* sqrt(ex * ex + ey * ey) of a field vector
Magnitude(ex, ey) ==
    LET k == Max(Abs(ex), Abs(ey)) \div 20000 + 1
    IN  k * Dist(SDiv(ex, k), SDiv(ey, k))

\* the field of one charge of the dipole of fields.js, strength
\* k * |q * e| / (r * r) as in the stationary branch, along the line from the
\* charge
SingleChargeField(q, x, y, cx, cy) ==
    LET r == Max(Dist(x - cx, y - cy), 100)
    IN  <<FieldTerm(q, x - cx, r, 3), FieldTerm(q, y - cy, r, 3)>>

\* C10: the field of several charges is the componentwise sum of the fields
\* of each charge alone, in any order of the charges
\* (calculateElectricFieldAtPoint), and the dipole strength of
\* calculateFieldStrengthAt is the magnitude of that sum (here to within one
\* part in a hundred).
Superposition ==
    /\ (page = "field" /\ sample # NoField
        /\ sample.fn = "calculateElectricFieldAtPoint") =>
          LET n == Len(sample.charges)
              alone(k) == calculateElectricFieldAtPoint(sample.x, sample.y,
                                                        <<sample.charges[k]>>)
              RECURSIVE total(_, _)
              total(k, axis) == IF k = 0 THEN 0
                                ELSE total(k - 1, axis) + alone(k)[axis]
              reversed == [k \in 1..n |-> sample.charges[n + 1 - k]]
          IN  /\ sample.e = <<total(n, 1), total(n, 2)>>
              /\ sample.e = calculateElectricFieldAtPoint(sample.x, sample.y,
                                                          reversed)
    /\ (page = "field" /\ sample # NoField
        /\ sample.fn = "calculateFieldStrengthAt"
        /\ sample.scenario = "dipole") =>
          LET e1 == SingleChargeField(1, sample.x, sample.y, 3750, 3000)
              e2 == SingleChargeField(-1, sample.x, sample.y, 5250, 3000)
              m  == Magnitude(e1[1] + e2[1], e1[2] + e2[2])
          IN  Abs(sample.strength - m) <= m \div 100 + 5

\* C11: in the moving-charge electric field the component along the velocity
\* (x) equals its value at beta = 0 and only the perpendicular component (y)
\* is multiplied by gamma (here to within one part in a hundred).
ParallelUnscaled ==
    (/\ page = "field"
     /\ sample # NoField
     /\ sample.fn = "drawElectricVectors"
     /\ sample.v # Zero) =>
        LET rest == drawElectricVectors(sample.x, sample.y, sample.q, Zero)
            g    == Gamma(sample.v).m
            perp == SDiv(rest[2] * g[1], g[2])
        IN  /\ Abs(sample.e[1] - rest[1]) <= Abs(rest[1]) \div 100 + 5
            /\ Abs(sample.e[2] - perp) <= Abs(perp) \div 100 + 5

\* C15: with an empty list of charges calculateElectricFieldAtPoint returns
\* the zero vector, and the line traced for a zero charge is an empty
\* polyline: it has no vertex.
DegenerateIsEmpty ==
    /\ calculateElectricFieldAtPoint(2000, 1500, <<>>) = <<0, 0>>
    /\ (/\ page = "field"
        /\ line # NoField
        /\ line.fn = "fields.drawFieldLine"
        /\ line.q = 0
        /\ line.pc = "done") => line.n = 0

\* C16: field evaluation and tracing floor every distance they divide by with
\* one and the same epsilon: the strength calculateFieldStrengthAt returns for
\* the dipole is the one its distances give when floored by the epsilon of
\* the tracer of the dipole, and the field of calculateElectricFieldAtPoint
\* is the one of distances floored by the epsilon of the tracers of part_000.
OneEpsilon ==
    /\ (/\ page = "field"
        /\ sample # NoField
        /\ sample.fn = "calculateFieldStrengthAt"
        /\ sample.scenario = "dipole") =>
          LET eps == Epsilon("fields.drawDipoleFieldLine")
          IN  sample.strength
                  = InvSquare(Max(Dist(sample.x - 3750, sample.y - 3000), eps))
                    + InvSquare(Max(Dist(sample.x - 5250, sample.y - 3000), eps))
    /\ (/\ page = "field"
        /\ sample # NoField
        /\ sample.fn = "calculateElectricFieldAtPoint"
        /\ Len(sample.charges) = 2) =>
          sample.e = FlooredField(sample.x, sample.y,
                                  sample.charges[1].q, sample.charges[1].x,
                                  sample.charges[1].y, sample.charges[2].q,
                                  sample.charges[2].x, sample.charges[2].y)

\* whether (x, y) is outside the bounds the tracer of the line l stops at
Outside(l, x, y) ==
    CASE l.fn \in {"fields.drawFieldLine", "fields.drawDipoleFieldLine"} ->
            OffCanvas(x, y, 9000, 6000)
      [] l.fn = "part_002.drawFieldLine" -> OffCanvas(x, y, 8000, 6000)
      [] l.fn = "part_000.drawQuadrupoleFieldLine" -> OffDomain(x, y, 4000, 4000)
      [] OTHER -> OffDomain(x, y, 6000, 5000)

\* C24: in every traced polyline every vertex except possibly the last lies
\* inside the bounds, whatever the seed: once the tracer has appended a
\* vertex, the vertex before it (the seed included) is inside, the loop only
\* goes on from a vertex inside, and a trace that ended on the bounds ended
\* at a vertex outside.
VerticesInside ==
    (page = "field" /\ line # NoField /\ line.n >= 2) =>
        /\ ~Outside(line, line.px, line.py)
        /\ line.pc = "loop" => ~Outside(line, line.x, line.y)
        /\ line.end = "bounds" => (line.pc = "done" /\ Outside(line, line.x, line.y))

-----------------------------------------------------------------------------
(* Properties of the controls and the info panel of the Field Visualizer *)

\* 0 < |v| < 0.01
BelowThreshold(v) == v # Zero /\ RLess(RAbs(v), <<1, 100>>)

SlowChargeHasNoB ==
    page \in Sketches =>
        /\ BelowThreshold(viz.velocity) => viz.bField.i = 0
        /\ (viz.frame # NoField /\ BelowThreshold(viz.frame.velocity)) =>
              ~viz.frame.magnetic

\* C14: whenever scenario = 'stationary' the displayed magnetic field value
\* is 0, whatever was selected and set before.
StationaryShowsNoB ==
    (page \in Sketches /\ viz.scenario = "stationary") =>
        viz.bFieldValue.digits[1] = 0

\* C17: the stored velocity lies in 0..0.99 after any sequence of control
\* events.
VelocityInRange ==
    page \in Sketches =>
        RLeq(Zero, viz.velocity) /\ RLeq(viz.velocity, <<99, 100>>)

\* C19: in every scenario the number of field lines traced from each source
\* (positive) charge is the current numFieldLines.
LinesPerSource ==
    (page \in Sketches /\ viz.frame # NoField /\ ~viz.frame.showVectors) =>
        \A k \in 1..Len(viz.frame.charges) :
            viz.frame.charges[k].q > 0 => viz.frame.lines[k] = viz.frame.numFieldLines

\* C20: the charges drawn for a scenario are those of the catalog: as many,
\* at the same positions and, where the scenario has several, of the same
\* signs.
CatalogConfiguration ==
    (page = "part_000" /\ viz.frame # NoField) =>
        LET held  == scenarios[viz.frame.scenario]
            drawn == viz.frame.charges
        IN  /\ Len(drawn) = Len(held)
            /\ \A k \in 1..Len(held) :
                  /\ drawn[k].x = held[k].x
                  /\ drawn[k].y = held[k].y
                  /\ Len(held) > 1 => Sgn(drawn[k].q) = Sgn(held[k].q)

-----------------------------------------------------------------------------
(* Properties of the interval of the Spacetime Explorer in double arithmetic *)

\* C18: updateInfo classifies the interval as exactly one of Timelike (< 0),
\* Spacelike (> 0) and Lightlike, and an interval that is zero within
\* floating tolerance is classified Lightlike: so is the interval of two
\* events whose typed coordinates have the exact interval 0, and so is a
\* computed interval below 2^-30 in magnitude (at most 110 bits in units of
\* 2^-140).
ZeroIsLightlike ==
    (page = "interval" /\ sample.fn = "updateInfo") =>
        LET info  == sample.info
            dx    == RSub(sample.bx, sample.ax)
            dct   == RSub(sample.bct, sample.act)
            exact == RSub(RMul(dx, dx), RMul(dct, dct))
        IN  /\ info.intervalType \in {"Timelike", "Spacelike", "Lightlike"}
            /\ info.intervalType = "Timelike" => info.interval.s < 0
            /\ info.intervalType = "Spacelike" => info.interval.s > 0
            /\ exact = Zero => info.intervalType = "Lightlike"
            /\ BitLength(info.interval.m) <= 110 =>
                  info.intervalType = "Lightlike"

-----------------------------------------------------------------------------
(* Properties of the display options of the Field Visualizer *)

-----------------------------------------------------------------------------
(* Further properties of src/lorentz.js *)

\* C22: in the Lorentz Transformer, after every event handler the displayed
\* outputs (x', t') are the Lorentz transform of the current input fields
\* under the current beta, also while a preset other than custom is
\* selected.
OutputsFollowInputs ==
    page = "transformer" =>
        /\ outputX = XPrime(Gamma(beta), beta, OrZero(inputX), OrZero(inputT))
        /\ outputT = TPrime(Gamma(beta), beta, OrZero(inputX), OrZero(inputT))

\* C25: the history holds at most 5 entries, newest first: a step that runs
\* calculateTransformation puts exactly one entry in front, the one of the
\* calculation just made, keeps the entries before it in their order and
\* drops the oldest if there were 5 already; no other step touches it.
HistoryKeepsFive ==
    [][page = "transformer" =>
         /\ Len(history') <= 5
         /\ (history' # history \/ (calcs' # calcs /\ lastHandler' = "calculate")) =>
               /\ Len(history') = IF Len(history) = 5 THEN 5 ELSE Len(history) + 1
               /\ Tail(history') = SubSeq(history, 1, Len(history') - 1)
               /\ history'[1].beta = beta'
               /\ history'[1].output = [x |-> outputX', t |-> outputT']]_vars

\* a calculation at another velocity has pushed the oldest of five entries out
HistoryKeepsFiveWitness ==
    /\ page = "transformer"
    /\ Len(history) = 5
    /\ lastHandler = "calculate"
    /\ history[1].beta # history[2].beta
    /\ history[2].beta = history[5].beta

\* C26: the event list of the Spacetime Explorer always has 2 to 5 entries,
\* the first two labelled A and B, and no label occurs twice.
EventListShape ==
    page = "explorer" =>
        /\ Len(events) \in 2..5
        /\ events[1].label = "A"
        /\ events[2].label = "B"
        /\ \A i, j \in 1..Len(events) : events[i].label = events[j].label => i = j

\* the list is full, and its fifth event has been dragged to the mouse
EventListShapeWitness ==
    /\ page = "explorer"
    /\ Len(events) = 5
    /\ draggedEvent = 5
    /\ events[5].label = "E"
    /\ \E pos \in MousePositions : events[5].x = Rat(pos[1] - offsetX, scale)
    /\ <<events[1].x, events[1].ct>> # <<<<2, 1>>, <<3, 1>>>>

\* C23: for each event of the Lorentz Transformer and every beta, the
\* transformed coordinates updateEventTransformations lists are the ones
\* drawSpacetimeDiagram plots for the event.
ListedIsPlotted ==
    (page = "transformer" /\ lastHandler # "setup") =>
        updateEventTransformations(gamma, beta, events)
            = drawSpacetimeDiagram(gamma, beta, events)

-----------------------------------------------------------------------------
(* Quiz (src/unnamed/part_001).  The variable quiz holds the quiz state of
   the script (currentQuiz, currentQuestionIndex, userAnswers, quizScores,
   quizTimer and the timeRemaining of startTimer), the panel the page shows
   (screen), the text of currentScore, what a click on certificateBtn showed
   on the progress report, and two counters: the quizzes started and the runs of
   finishQuiz since the last startQuiz.  A null answer is -1. *)

\* the field correct of the questions of a topic, in the order of the
\* database; for 'final' one outcome of getMixedQuiz: two questions of each
\* topic
quizDatabase(topic) ==
    LET correct ==
            CASE topic = "timeDilation" -> <<2, 0, 1, 3, 0>>
              [] topic = "lengthContraction" -> <<1, 0, 1, 2>>
              [] topic = "lorentz" -> <<1, 1, 0, 0, 0, 0>>
              [] topic = "fields" -> <<1, 2, 0>>
              [] topic = "spacetime" -> <<1, 2, 0, 0>>
              [] topic = "final" -> <<2, 0, 1, 0, 1, 1, 1, 2, 1, 2>>
    IN  SubSeq(correct, 1, IF Len(correct) > QuizLength THEN QuizLength
                           ELSE Len(correct))

\* calculateScore(): the questions whose selected answer is the correct one
calculateScore(q) ==
    Cardinality({i \in 1..Len(q.userAnswers) :
                    q.userAnswers[i] = quizDatabase(q.currentQuiz)[i]})

\* a finishQuiz that stores the new percentage whatever the saved one was
finishQuizOverwrites(q) ==
    LET length == Len(quizDatabase(q.currentQuiz))
        percentage == (200 * calculateScore(q) + length) \div (2 * length)
    IN  [q EXCEPT !.quizTimer = FALSE,
                  !.quizScores[q.currentQuiz] = percentage,
                  !.screen = "report",
                  !.finished = @ + 1]

\* finishQuiz(): clearInterval(quizTimer), percentage = Math.round(score /
\* length * 100), quizScores[topic] = Math.max(quizScores[topic] || 0,
\* percentage), showProgressReport().  The topic is the key of the database
\* whose title is the title of currentQuiz, or 'final'.
finishQuiz(q) ==
    LET length == Len(quizDatabase(q.currentQuiz))
        percentage == (200 * calculateScore(q) + length) \div (2 * length)
    IN  [q EXCEPT !.quizTimer = FALSE,
                  !.quizScores[q.currentQuiz] = Max(@, percentage),
                  !.screen = "report",
                  !.finished = @ + 1]

\* the page after initializeQuiz(): quizScores is what localStorage holds, the
\* defaults or the scores an earlier visit saved
InitQuiz ==
    /\ page = "quiz"
    /\ \E saved \in {0, 100} :
          quiz = [screen |-> "selection", currentQuiz |-> "none",
                  currentQuestionIndex |-> 0, userAnswers |-> <<>>,
                  currentScore |-> 0, quizTimer |-> FALSE, timeRemaining |-> 0,
                  quizScores |-> [timeDilation |-> saved, lengthContraction |-> saved,
                                  lorentz |-> saved, fields |-> saved,
                                  spacetime |-> saved, final |-> 0],
                  certificate |-> "none", started |-> 0, finished |-> 0]
    /\ line = NoField
    /\ sample = NoField
    /\ viz = NoField
    /\ beta = Zero
    /\ gamma = Plain(One)
    /\ events = <<>>
    /\ history = <<>>
    /\ currentPreset = "custom"
    /\ inputX = Plain(Zero)
    /\ inputT = Plain(Zero)
    /\ outputX = Plain(Zero)
    /\ outputT = Plain(Zero)
    /\ isAnimating = FALSE
    /\ draggedEvent = 0
    /\ calcs = 0
    /\ swaps = 0
    /\ lastHandler = "setup"

\* startQuiz(topic), from a click on a topic card or on finalChallengeBtn
startQuiz(topic) ==
    /\ page = "quiz"
    /\ quiz.screen = "selection"
    /\ quiz.started < MaxQuizzes
    /\ quiz' = [quiz EXCEPT
                  !.screen = "quiz",
                  !.currentQuiz = topic,
                  !.currentQuestionIndex = 0,
                  !.userAnswers = [i \in 1..Len(quizDatabase(topic)) |-> -1],
                  !.currentScore = 0,
                  !.quizTimer = TRUE,
                  !.timeRemaining = TimeLimit,
                  !.started = @ + 1,
                  !.finished = 0]
    /\ UNCHANGED <<page, beta, gamma, events, draggedEvent, transformerVars,
                   line, sample, viz>>

\* selectAnswer(answerIndex), from a click on an option; updateScore() counts
\* the questions 0 .. currentQuestionIndex
selectAnswer(answerIndex) ==
    /\ page = "quiz"
    /\ quiz.screen = "quiz"
    /\ LET answers == [quiz.userAnswers EXCEPT
                          ![quiz.currentQuestionIndex + 1] = answerIndex]
       IN  quiz' = [quiz EXCEPT
                      !.userAnswers = answers,
                      !.currentScore =
                          Cardinality({i \in 1..(quiz.currentQuestionIndex + 1) :
                              answers[i] = quizDatabase(quiz.currentQuiz)[i]})]
    /\ UNCHANGED <<page, beta, gamma, events, draggedEvent, transformerVars,
                   line, sample, viz>>

\* prevQuestion()
prevQuestion ==
    /\ page = "quiz"
    /\ quiz.screen = "quiz"
    /\ quiz' = IF quiz.currentQuestionIndex > 0
               THEN [quiz EXCEPT !.currentQuestionIndex = @ - 1]
               ELSE quiz
    /\ UNCHANGED <<page, beta, gamma, events, draggedEvent, transformerVars,
                   line, sample, viz>>

\* nextQuestion()
nextQuestion ==
    /\ page = "quiz"
    /\ quiz.screen = "quiz"
    /\ quiz' = IF quiz.currentQuestionIndex < Len(quizDatabase(quiz.currentQuiz)) - 1
               THEN [quiz EXCEPT !.currentQuestionIndex = @ + 1]
               ELSE finishQuiz(quiz)
    /\ UNCHANGED <<page, beta, gamma, events, draggedEvent, transformerVars,
                   line, sample, viz>>

\* quitQuiz(), confirm() answered with confirmed
quitQuiz(confirmed) ==
    /\ page = "quiz"
    /\ quiz.screen = "quiz"
    /\ quiz' = IF confirmed THEN finishQuiz(quiz) ELSE quiz
    /\ UNCHANGED <<page, beta, gamma, events, draggedEvent, transformerVars,
                   line, sample, viz>>

\* a tick that lets the quiz go on when the time is up
TimerTickWithoutEnd ==
    /\ page = "quiz"
    /\ quiz.quizTimer
    /\ quiz' = IF quiz.timeRemaining - 1 <= 0
               THEN [quiz EXCEPT !.timeRemaining = @ - 1, !.quizTimer = FALSE]
               ELSE [quiz EXCEPT !.timeRemaining = @ - 1]
    /\ UNCHANGED <<page, beta, gamma, events, draggedEvent, transformerVars,
                   line, sample, viz>>

\* the callback startTimer() hands to setInterval, run while the interval of
\* quizTimer is set
TimerTick ==
    /\ page = "quiz"
    /\ quiz.quizTimer
    /\ quiz' = IF quiz.timeRemaining - 1 <= 0
               THEN finishQuiz([quiz EXCEPT !.timeRemaining = @ - 1])
               ELSE [quiz EXCEPT !.timeRemaining = @ - 1]
    /\ UNCHANGED <<page, beta, gamma, events, draggedEvent, transformerVars,
                   line, sample, viz>>

\* click on viewProgressBtn: showProgressReport()
showProgressReport ==
    /\ page = "quiz"
    /\ quiz.screen = "selection"
    /\ quiz' = [quiz EXCEPT !.screen = "report"]
    /\ UNCHANGED <<page, beta, gamma, events, draggedEvent, transformerVars,
                   line, sample, viz>>

\* backToTopics(); what the last click on certificateBtn showed is gone
backToTopics ==
    /\ page = "quiz"
    /\ quiz.screen = "report"
    /\ quiz' = [quiz EXCEPT !.screen = "selection", !.certificate = "none"]
    /\ UNCHANGED <<page, beta, gamma, events, draggedEvent, transformerVars,
                   line, sample, viz>>

\* showCertificate(): avgScore = Math.round(sum of quizScores / 6); the
\* certificate window is opened, or the alert refuses
showCertificate ==
    /\ page = "quiz"
    /\ quiz.screen = "report"
    /\ LET scores == quiz.quizScores
           total == scores.timeDilation + scores.lengthContraction + scores.lorentz
                    + scores.fields + scores.spacetime + scores.final
           avgScore == (2 * total + 6) \div 12
       IN  quiz' = [quiz EXCEPT !.certificate = IF avgScore >= 70 THEN "shown"
                                                ELSE "refused"]
    /\ UNCHANGED <<page, beta, gamma, events, draggedEvent, transformerVars,
                   line, sample, viz>>

SpecQuiz ==
    InitQuiz
    /\ [][\/ \E topic \in {"timeDilation", "fields", "final"} : startQuiz(topic)
          \/ \E answerIndex \in 0..3 : selectAnswer(answerIndex)
          \/ prevQuestion
          \/ nextQuestion
          \/ \E confirmed \in BOOLEAN : quitQuiz(confirmed)
          \/ TimerTick
          \/ showProgressReport
          \/ backToTopics
          \/ showCertificate]_vars

\* setInterval runs the callback every second as long as the interval is set
SpecQuizTimer == SpecQuiz /\ WF_vars(TimerTick)

-----------------------------------------------------------------------------
(* Properties of the quiz *)

\* C27: while a quiz runs, the score the page displays is the number of
\* questions whose selected answer is correct, whatever the order in which
\* the questions were visited and answered.
DisplayedScoreIsScore ==
    (page = "quiz" /\ quiz.screen = "quiz") => quiz.currentScore = calculateScore(quiz)

\* C28: the saved score of a topic never decreases and stays within 0..100;
\* only a run of finishQuiz changes the saved scores, it stores the larger of
\* the saved score and the new percentage for the topic of the quiz and
\* leaves the other topics as they were.
SavedScoresGrow ==
    [][page = "quiz" =>
         LET length == Len(quizDatabase(quiz.currentQuiz))
             percentage == (200 * calculateScore(quiz) + length) \div (2 * length)
         IN  /\ \A topic \in DOMAIN quiz.quizScores :
                   /\ quiz'.quizScores[topic] \in 0..100
                   /\ quiz'.quizScores[topic] >= quiz.quizScores[topic]
                   /\ quiz'.quizScores[topic] # quiz.quizScores[topic] =>
                          (topic = quiz.currentQuiz /\ quiz'.finished = quiz.finished + 1)
             /\ quiz'.finished = quiz.finished + 1 =>
                   quiz'.quizScores[quiz.currentQuiz] =
                       Max(quiz.quizScores[quiz.currentQuiz], percentage)]_vars

\* a quiz finished with a lower percentage than the saved one, which stays,
\* after another topic was raised from 0
SavedScoresGrowWitness ==
    /\ page = "quiz"
    /\ quiz.screen = "report"
    /\ quiz.finished = 1
    /\ quiz.currentQuiz = "fields"
    /\ quiz.userAnswers[1] = 1
    /\ quiz.userAnswers[2] = 0
    /\ quiz.quizScores.fields = 100
    /\ quiz.quizScores.final \in 1..99

\* C29: a started quiz is finished exactly once.  While the timer is set the
\* quiz is on the screen, has not been finished and has between 1 and
\* TimeLimit seconds left; finishQuiz has never run twice for one quiz; the
\* tick that takes the last second finishes the quiz; and a quiz that runs
\* is eventually finished, with the timer cleared.
QuizFinishedOnce ==
    /\ [](page = "quiz" =>
            /\ quiz.finished <= 1
            /\ quiz.quizTimer <=> quiz.screen = "quiz"
            /\ quiz.quizTimer => (quiz.finished = 0 /\ quiz.timeRemaining \in 1..TimeLimit))
    /\ [][(page = "quiz" /\ quiz.quizTimer /\ quiz'.timeRemaining = 0) =>
            (quiz'.finished = 1 /\ ~quiz'.quizTimer)]_vars
    /\ (page = "quiz" /\ quiz.quizTimer) ~> (quiz.finished = 1 /\ ~quiz.quizTimer)

\* the second quiz of a visit, finished by the timer with one answer given
QuizFinishedOnceWitness ==
    /\ page = "quiz"
    /\ quiz.started = 2
    /\ quiz.finished = 1
    /\ ~quiz.quizTimer
    /\ quiz.timeRemaining = 0
    /\ quiz.screen = "report"
    /\ quiz.userAnswers[1] = -1
    /\ quiz.userAnswers[2] = 2

\* C30: the certificate is shown only when the saved score of every topic is
\* at least 70.
CertificateNeedsEveryTopic ==
    (page = "quiz" /\ quiz.certificate = "shown") =>
        \A topic \in DOMAIN quiz.quizScores : quiz.quizScores[topic] >= 70

=============================================================================
